---- MODULE Spec2Model ----
(***************************************************************************)
(* A model of the ufcstats scraper: the fetch helper and URL normalizers   *)
(* of ufcstats/net.py, the per-entity and directory ingestion drivers of   *)
(* scripts/ingest, and the dimension builders of scripts/build.            *)
(*                                                                         *)
(* Text is modelled as a sequence of one-character strings, so that prefix *)
(* tests, regex rewrites, whitespace cleaning and case folding are         *)
(* computed character by character as the code computes them.              *)
(***************************************************************************)
EXTENDS Integers, Sequences, FiniteSets, TLC

VARIABLES
    fetch,      \* fetch_html: the locals of one call (net.py)
    canon,      \* URL canonicalization: one input and its images
    dim_event,  \* build_dim_event: the input table and the table written
    fight_in,   \* fight-details driver: the fight_url column of its input CSV
    fight_out,  \* fight-details driver: the output file on disk
    fight,      \* fight-details driver: the locals of the current run
    details,    \* event-details / fighter-details driver: one run
    directory,  \* event-directory / fighter-directory driver: one run
    coerce,    \* _to_int_series: one column of a numeric field and its image
    fact_bout, \* build_fact_bout: the inputs read and the table written
    dim_fighter,\* build_dim_fighter: the three tables read and the table written
    event_page,\* parse_event_details_html: the rows of one page and the bouts returned
    pipeline,  \* run_pipeline_raw.main: the stages started, their exits, the files between them
    fighter_page,\* parse_fighter_details: the list items of one page and the record returned
    fight_page \* parse_fight_details: the meta paragraphs and tables of one page, the row returned

vars == <<fetch, canon, dim_event, fight_in, fight_out, fight, details, directory, coerce, fact_bout, dim_fighter, event_page, pipeline, fighter_page, fight_page>>

\* what each component leaves alone
notFetch == <<canon, dim_event, fight_in, fight_out, fight, details, directory, coerce, fact_bout, dim_fighter, event_page, pipeline, fighter_page, fight_page>>
notCanon == <<fetch, dim_event, fight_in, fight_out, fight, details, directory, coerce, fact_bout, dim_fighter, event_page, pipeline, fighter_page, fight_page>>
notDimEvent == <<fetch, canon, fight_in, fight_out, fight, details, directory, coerce, fact_bout, dim_fighter, event_page, pipeline, fighter_page, fight_page>>
notFight == <<fetch, canon, dim_event, details, directory, coerce, fact_bout, dim_fighter, event_page, pipeline, fighter_page, fight_page>>
notDetails == <<fetch, canon, dim_event, fight_in, fight_out, fight, directory, coerce, fact_bout, dim_fighter, event_page, pipeline, fighter_page, fight_page>>
notDirectory == <<fetch, canon, dim_event, fight_in, fight_out, fight, details, coerce, fact_bout, dim_fighter, event_page, pipeline, fighter_page, fight_page>>
notCoerce == <<fetch, canon, dim_event, fight_in, fight_out, fight, details, directory, fact_bout, dim_fighter, event_page, pipeline, fighter_page, fight_page>>
notFactBout == <<fetch, canon, dim_event, fight_in, fight_out, fight, details, directory, coerce, dim_fighter, event_page, pipeline, fighter_page, fight_page>>
notDimFighter == <<fetch, canon, dim_event, fight_in, fight_out, fight, details, directory, coerce, fact_bout, event_page, pipeline, fighter_page, fight_page>>
notEventPage == <<fetch, canon, dim_event, fight_in, fight_out, fight, details, directory, coerce, fact_bout, dim_fighter, pipeline, fighter_page, fight_page>>
notPipeline == <<fetch, canon, dim_event, fight_in, fight_out, fight, details, directory, coerce, fact_bout, dim_fighter, event_page, fighter_page, fight_page>>
notFighterPage == <<fetch, canon, dim_event, fight_in, fight_out, fight, details, directory, coerce, fact_bout, dim_fighter, event_page, pipeline, fight_page>>
notFightPage == <<fetch, canon, dim_event, fight_in, fight_out, fight, details, directory, coerce, fact_bout, dim_fighter, event_page, pipeline, fighter_page>>

(***************************************************************************)
(* Bounds of the model                                                     *)
(***************************************************************************)
MaxRetries == 4
MaxSlashes == 2
MaxRows == 2
MaxRuns == 3
MaxChars == 2
MaxBouts == 3
MaxTrs == 3
MaxLabels == 2
MaxTables == 2

(***************************************************************************)
(* Text primitives                                                         *)
(***************************************************************************)
\* the non-breaking space U+00A0, one character
NBSP == "nbsp"

Drop(s, n) == SubSeq(s, n + 1, Len(s))

\* str.startswith
StartsWith(s, p) == Len(s) >= Len(p) /\ SubSeq(s, 1, Len(p)) = p

\* the `in` operator on str / str.contains(regex=False)
Contains(s, p) ==
    \E i \in 0..(Len(s) - Len(p)) : SubSeq(s, i + 1, i + Len(p)) = p

\* the characters Python's \s and str.strip() treat as whitespace
IsSpace(c) == c \in {" ", "\t", "\n", "\r", "\f", NBSP}

LowerChars == <<"a", "b", "c", "d", "e", "f", "g", "h", "i", "j", "k", "l", "m",
                "n", "o", "p", "q", "r", "s", "t", "u", "v", "w", "x", "y", "z">>
UpperChars == <<"A", "B", "C", "D", "E", "F", "G", "H", "I", "J", "K", "L", "M",
                "N", "O", "P", "Q", "R", "S", "T", "U", "V", "W", "X", "Y", "Z">>

UpperChar(c) ==
    IF \E i \in 1..Len(LowerChars) : LowerChars[i] = c
    THEN UpperChars[CHOOSE i \in 1..Len(LowerChars) : LowerChars[i] = c]
    ELSE c

\* str.upper()
Upper(s) == [i \in 1..Len(s) |-> UpperChar(s[i])]

\* str.replace(old, new) for a one-character old
ReplaceChar(s, old, new) ==
    [i \in 1..Len(s) |-> IF s[i] = old THEN new ELSE s[i]]

\* re.sub(r"\s+", " ", s): every maximal run of whitespace becomes one space
RECURSIVE CollapseSpaces(_)
CollapseSpaces(s) ==
    IF s = <<>> THEN <<>>
    ELSE IF IsSpace(Head(s))
         THEN IF Len(s) > 1 /\ IsSpace(s[2])
              THEN CollapseSpaces(Tail(s))
              ELSE <<" ">> \o CollapseSpaces(Tail(s))
         ELSE <<Head(s)>> \o CollapseSpaces(Tail(s))

RECURSIVE LStrip(_)
LStrip(s) == IF s # <<>> /\ IsSpace(Head(s)) THEN LStrip(Tail(s)) ELSE s

RECURSIVE RStrip(_)
RStrip(s) ==
    IF s # <<>> /\ IsSpace(s[Len(s)]) THEN RStrip(SubSeq(s, 1, Len(s) - 1)) ELSE s

\* str.strip()
Strip(s) == RStrip(LStrip(s))

\* re.sub(r"/+$", "", s) on text without a newline
RECURSIVE StripTrailingSlashes(_)
StripTrailingSlashes(s) ==
    IF s # <<>> /\ s[Len(s)] = "/"
    THEN StripTrailingSlashes(SubSeq(s, 1, Len(s) - 1))
    ELSE s

S_http == <<"h", "t", "t", "p">>
S_https == <<"h", "t", "t", "p", "s">>
S_sep == <<":", "/", "/">>
S_www == <<"w", "w", "w", ".">>
S_host == <<"u", "f", "c", "s", "t", "a", "t", "s", ".", "c", "o", "m">>

\* the four scheme/host variants of the site
P_https_bare == S_https \o S_sep \o S_host
P_http_bare == S_http \o S_sep \o S_host
P_https_www == S_https \o S_sep \o S_www \o S_host
P_http_www == S_http \o S_sep \o S_www \o S_host

(***************************************************************************)
(* ufcstats/net.py: fetch_html                                             *)
(***************************************************************************)
\* what one session.get + raise_for_status can do
Bodies == {"html_1", "html_2"}
Responses ==
    {[kind |-> "ok", text |-> b] : b \in Bodies}
    \cup {[kind |-> "http_error", text |-> "none"],
          [kind |-> "conn_error", text |-> "none"]}

\* the state on entry: last_err = None, the loop about to start at attempt 1;
\* requests counts the session.get calls, sleeps lists the backoff factors
\* (time.sleep(0.75 * attempt)) and seen the responses received, in order
FetchStart(url, retries) ==
    [url |-> url, retries |-> retries, attempt |-> 1, last_err |-> "None",
     status |-> "running", text |-> "none", requests |-> 0, sleeps |-> <<>>,
     seen |-> <<>>]

\* a slip of the loop body: the successful response is kept but not returned
FetchStepKeepsGoing(st, resp) ==
    [st EXCEPT !.last_err = IF resp.kind = "ok" THEN @ ELSE resp.kind,
               !.text = IF resp.kind = "ok" THEN resp.text ELSE @,
               !.requests = @ + 1, !.seen = Append(@, resp),
               !.sleeps = Append(@, st.attempt), !.attempt = @ + 1]

\* one iteration of the retry loop, the request being answered by resp
FetchStep(st, resp) ==
    IF resp.kind = "ok"
    THEN [st EXCEPT !.status = "returned", !.text = resp.text,
                    !.requests = @ + 1, !.seen = Append(@, resp)]
    ELSE [st EXCEPT !.last_err = resp.kind, !.requests = @ + 1,
                    !.seen = Append(@, resp),
                    !.sleeps = Append(@, st.attempt), !.attempt = @ + 1]

\* the loop ran out of attempts: raise RuntimeError
FetchRaise(st) == [st EXCEPT !.status = "raised"]

\* the whole call, the k-th request being answered by resps[k]
RECURSIVE FetchRun(_, _)
FetchRun(st, resps) ==
    IF st.status # "running" THEN st
    ELSE IF st.attempt > st.retries THEN FetchRaise(st)
    ELSE FetchRun(FetchStep(st, Head(resps)), Tail(resps))

FetchUrls == {P_https_www \o <<"/", "a">>, P_http_bare \o <<"/", "b">>}

FetchIdle == fetch = FetchStart(<<>>, 0)

FetchInit ==
    \E u \in FetchUrls, n \in 0..MaxRetries : fetch = FetchStart(u, n)

FetchAttempt ==
    /\ fetch.status = "running"
    /\ fetch.attempt <= fetch.retries
    /\ \E resp \in Responses : fetch' = FetchStep(fetch, resp)
    /\ UNCHANGED notFetch

FetchExhausted ==
    /\ fetch.status = "running"
    /\ fetch.attempt > fetch.retries
    /\ fetch' = FetchRaise(fetch)
    /\ UNCHANGED notFetch

(***************************************************************************)
(* URL canonicalization: net.py normalize_ufcstats_url and the builders'   *)
(* _normalize_ufcstats_url_series                                          *)
(***************************************************************************)
\* _clean_text_series, on one cell
clean_text_series(s) ==
    Strip(CollapseSpaces(ReplaceChar(s, NBSP, " ")))

S_canon_root == P_http_bare \o <<"/">>

\* re.sub(r"^https?://www\.ufcstats\.com/", "http://ufcstats.com/", x)
RewriteWww(x) ==
    IF StartsWith(x, P_http_www \o <<"/">>)
    THEN S_canon_root \o Drop(x, Len(P_http_www) + 1)
    ELSE IF StartsWith(x, P_https_www \o <<"/">>)
    THEN S_canon_root \o Drop(x, Len(P_https_www) + 1)
    ELSE x

\* re.sub(r"^https?://ufcstats\.com/", "http://ufcstats.com/", x)
RewriteBare(x) ==
    IF StartsWith(x, P_http_bare \o <<"/">>)
    THEN S_canon_root \o Drop(x, Len(P_http_bare) + 1)
    ELSE IF StartsWith(x, P_https_bare \o <<"/">>)
    THEN S_canon_root \o Drop(x, Len(P_https_bare) + 1)
    ELSE x

\* a slip of the trailing-slash rule: "/$" for "/+$"
StripOneTrailingSlash(s) ==
    IF s # <<>> /\ s[Len(s)] = "/" THEN SubSeq(s, 1, Len(s) - 1) ELSE s

\* the rule of line 29: remove trailing slash
StripSlashRule(s) == StripTrailingSlashes(s)

\* _normalize_ufcstats_url_series, on one cell
normalize_ufcstats_url_series(s) ==
    StripSlashRule(RewriteBare(RewriteWww(clean_text_series(s))))

\* the prefixes tuple of normalize_ufcstats_url, in its order
prefixes == <<P_https_bare, P_http_bare, P_https_www, P_http_www>>

\* pick_base_url's candidates, in the order tried
BaseUrls == <<P_https_www, P_http_bare>>

\* normalize_ufcstats_url: the first prefix that matches is replaced by base
normalize_ufcstats_url(url, base) ==
    LET u == Strip(url)
        hits == {i \in 1..Len(prefixes) : StartsWith(u, prefixes[i])}
        first == CHOOSE i \in hits : \A j \in hits : i <= j
    IN  IF u = <<>> THEN u
        ELSE IF hits = {} THEN u
        ELSE base \o Drop(u, Len(prefixes[first]))

RECURSIVE Slashes(_)
Slashes(n) == IF n = 0 THEN <<>> ELSE <<"/">> \o Slashes(n - 1)

S_fight_a == <<"/", "f", "i", "g", "h", "t", "-", "d", "e", "t", "a", "i", "l", "s", "/", "a">>
S_fight_b == <<"/", "f", "i", "g", "h", "t", "-", "d", "e", "t", "a", "i", "l", "s", "/", "b">>
S_event_abc == <<"/", "e", "v", "e", "n", "t", "-", "d", "e", "t", "a", "i", "l", "s", "/", "a", "b", "c">>
S_event_xyz == <<"/", "e", "v", "e", "n", "t", "-", "d", "e", "t", "a", "i", "l", "s", "/", "x", "y", "z">>
S_fighter_x == <<"/", "f", "i", "g", "h", "t", "e", "r", "-", "d", "e", "t", "a", "i", "l", "s", "/", "x">>

SitePaths == {<<>>, S_fight_a, S_event_abc, S_fighter_x, <<"/", "a", "/", "/", "b">>}

\* the four scheme/host variants of each path, with 0..MaxSlashes trailing slashes
CanonInputs ==
    {prefixes[i] \o p \o Slashes(k) :
        i \in 1..Len(prefixes), p \in SitePaths, k \in 0..MaxSlashes}

CanonIdle == canon = [phase |-> "idle"]

CanonInit ==
    \E u \in CanonInputs, b \in 1..Len(BaseUrls), w \in {"builder", "net"} :
        canon = [phase |-> "input", which |-> w, u |-> u, base |-> BaseUrls[b]]

CanonFn(c, x) ==
    IF c.which = "builder" THEN normalize_ufcstats_url_series(x)
    ELSE normalize_ufcstats_url(x, c.base)

\* canon(u)
CanonOnce ==
    /\ canon.phase = "input"
    /\ canon' = [phase |-> "once", which |-> canon.which, u |-> canon.u,
                 base |-> canon.base, out1 |-> CanonFn(canon, canon.u)]
    /\ UNCHANGED notCanon

\* canon(canon(u))
CanonTwice ==
    /\ canon.phase = "once"
    /\ canon' = [phase |-> "twice", which |-> canon.which, u |-> canon.u,
                 base |-> canon.base, out1 |-> canon.out1,
                 out2 |-> CanonFn(canon, canon.out1)]
    /\ UNCHANGED notCanon

(***************************************************************************)
(* scripts/build/build_dim_event.py                                        *)
(***************************************************************************)
\* the subsequence of s at the indices in I, in order
RECURSIVE KeepIndices(_, _)
KeepIndices(s, I) ==
    IF s = <<>> THEN <<>>
    ELSE KeepIndices(SubSeq(s, 1, Len(s) - 1), I)
            \o (IF Len(s) \in I THEN <<s[Len(s)]>> ELSE <<>>)

S_UFC_ == <<"U", "F", "C", " ">>
S_UFC_FIGHT_NIGHT == <<"U", "F", "C", " ", "F", "I", "G", "H", "T", " ", "N", "I", "G", "H", "T">>

\* name_u.str.startswith("UFC ") | name_u.str.contains("UFC FIGHT NIGHT")
StartsWithUfcNoSpace(name) ==
    LET name_u == Upper(name)
    IN  StartsWith(name_u, <<"U", "F", "C">>) \/ Contains(name_u, S_UFC_FIGHT_NIGHT)

is_ufc_from_name(name) ==
    LET name_u == Upper(name)
    IN  StartsWith(name_u, S_UFC_) \/ Contains(name_u, S_UFC_FIGHT_NIGHT)

\* lines 52-55: normalize text fields
DimEventClean(r) ==
    [event_url |-> clean_text_series(r.event_url),
     event_name |-> clean_text_series(r.event_name),
     event_date_raw |-> clean_text_series(r.event_date_raw),
     event_location_raw |-> clean_text_series(r.event_location_raw)]

\* df.drop_duplicates(subset=["event_url"], keep="first")
DropDuplicateEvents(rows) ==
    KeepIndices(rows, {i \in 1..Len(rows) :
        \A j \in 1..(i - 1) : rows[j].event_url # rows[i].event_url})

\* a slip of the order of lines 58-66: duplicates dropped before empty rows
build_dim_event_dedup_first(rows) ==
    LET cleaned == [i \in 1..Len(rows) |-> DimEventClean(rows[i])]
        flagged == [i \in 1..Len(cleaned) |->
            [event_url |-> cleaned[i].event_url,
             event_name |-> cleaned[i].event_name,
             event_date_raw |-> cleaned[i].event_date_raw,
             event_location_raw |-> cleaned[i].event_location_raw,
             is_ufc |-> is_ufc_from_name(cleaned[i].event_name)]]
        unique == DropDuplicateEvents(flagged)
        named == SelectSeq(unique, LAMBDA r : r.event_name # <<>>)
    IN  SelectSeq(named, LAMBDA r : r.event_url # <<>>)

\* build_dim_event: the table written for the table read
build_dim_event(rows) ==
    LET cleaned == [i \in 1..Len(rows) |-> DimEventClean(rows[i])]
        named == SelectSeq(cleaned, LAMBDA r : r.event_name # <<>>)
        keyed == SelectSeq(named, LAMBDA r : r.event_url # <<>>)
        flagged == [i \in 1..Len(keyed) |->
            [event_url |-> keyed[i].event_url,
             event_name |-> keyed[i].event_name,
             event_date_raw |-> keyed[i].event_date_raw,
             event_location_raw |-> keyed[i].event_location_raw,
             is_ufc |-> is_ufc_from_name(keyed[i].event_name)]]
    IN  DropDuplicateEvents(flagged)

N_ufc300 == <<"U", "F", "C", " ", "3", "0", "0">>
N_fight_night == <<"U", "F", "C", " ", "F", "i", "g", "h", "t", " ", "N", "i", "g", "h", "t", ":", " ", "S", "m", "i", "t", "h", " ", "v", "s", " ", "J", "o", "n", "e", "s">>
N_bellator == <<"B", "e", "l", "l", "a", "t", "o", "r", " ", "2", "0", "0">>
N_bare_ufc == <<"U", "F", "C">>
N_lower == <<"u", "f", "c", " ", "3", "0", "0">>
N_nbsp == <<"U", "F", "C", NBSP, "3", "0", "0">>
N_spaced == <<" ", "T", "h", "e", " ", " ", "u", "f", "c", NBSP, "F", "i", "g", "h", "t", "\n", "N", "i", "g", "h", "t", " ", "9", " ">>
N_ufcx == <<"U", "F", "C", "X", " ", "1">>
N_road == <<"R", "o", "a", "d", " ", "t", "o", " ", "U", "F", "C">>
N_padded_ufc == <<"U", "F", "C", " ", " ">>
N_blank == <<" ", NBSP>>
N_empty == <<>>

EventNames == {N_ufc300, N_fight_night, N_bellator, N_bare_ufc, N_lower, N_nbsp, N_spaced, N_ufcx, N_road, N_padded_ufc, N_blank, N_empty}
FewEventNames == {N_ufc300, N_bellator, N_empty}

U_abc_https_www == P_https_www \o S_event_abc
U_abc_http_bare == P_http_bare \o S_event_abc
U_abc_slash == P_http_bare \o S_event_abc \o <<"/">>
U_abc_padded == <<" ">> \o P_http_bare \o S_event_abc \o <<"\n">>
U_xyz_http_bare == P_http_bare \o S_event_xyz

EventUrls == {U_abc_https_www, U_abc_http_bare, U_abc_slash, U_abc_padded,
              U_xyz_http_bare, <<>>}

S_date == <<"A", "p", "r", "i", "l", " ", "1", "3", ",", " ", "2", "0", "2", "4">>
S_location == <<"L", "a", "s", " ", "V", "e", "g", "a", "s", ",", " ", " ", "N", "e", "v", "a", "d", "a">>

EventDirectoryRow(u, n) ==
    [event_url |-> u, event_name |-> n, event_date_raw |-> S_date,
     event_location_raw |-> S_location]

\* the rows an event-directory snapshot is drawn from
EventRowPool ==
    {EventDirectoryRow(U_abc_https_www, n) : n \in EventNames}
    \cup {EventDirectoryRow(u, n) : u \in EventUrls, n \in FewEventNames}

RECURSIVE Tables(_, _)
Tables(pool, n) ==
    IF n = 0 THEN {<<>>}
    ELSE LET shorter == Tables(pool, n - 1)
         IN  shorter \cup {Append(t, r) : t \in {s \in shorter : Len(s) = n - 1}, r \in pool}

DimEventIdle == dim_event = [phase |-> "idle"]

DimEventInit ==
    \E rows \in Tables(EventRowPool, MaxRows) :
        dim_event = [phase |-> "read", rows |-> rows]

\* one run of the builder: df_out.to_csv(outpath)
BuildDimEvent ==
    /\ dim_event.phase = "read"
    /\ dim_event' = [phase |-> "written", rows |-> dim_event.rows,
                     out |-> build_dim_event(dim_event.rows)]
    /\ UNCHANGED notDimEvent

(***************************************************************************)
(* ufcstats/net.py: pick_base_url                                          *)
(***************************************************************************)
\* reach[k]: whether the k-th candidate answers; 0 when none does (RuntimeError)
pick_base_url(reach) ==
    IF \E k \in 1..Len(BaseUrls) : reach[k]
    THEN CHOOSE k \in 1..Len(BaseUrls) : reach[k] /\ \A j \in 1..(k - 1) : ~reach[j]
    ELSE 0

Reachability == [1..Len(BaseUrls) -> BOOLEAN]

\* the answers the site can give to the requests of one fetch_html call
ResponseRuns(retries) == [1..retries -> Responses]

\* a line on standard error: "[i/n] FAIL fetch <url>: ..." or "FAIL parse"
LogLine(what, url) == [what |-> what, url |-> url]

\* the ways a driver's call fetch_html(session, url, retries=retries) can end
FetchOutcomes(url, retries) ==
    {FetchRun(FetchStart(url, retries), resps).status :
        resps \in ResponseRuns(retries)}

(***************************************************************************)
(* scripts/ingest/ingest_fight_details.py                                  *)
(***************************************************************************)
\* retries: int = 3
FightRetries == 3

\* a path: whether a file is there, and its lines
ABSENT == [exists |-> FALSE, lines |-> <<>>]
File(lines) == [exists |-> TRUE, lines |-> lines]

F_a_http == P_http_bare \o S_fight_a
F_a_www == P_https_www \o S_fight_a
F_b_www == P_https_www \o S_fight_b

\* a line of the output file
HeaderLine == [kind |-> "header", fight_url |-> <<>>]
RowLine(u) == [kind |-> "row", fight_url |-> u]
JunkLine == [kind |-> "junk", fight_url |-> <<>>]

Take(s, n) == SubSeq(s, 1, IF n < Len(s) THEN n ELSE Len(s))

\* [u for u in fight_urls if not (u in seen or seen.add(u))]
DedupKeepOrder(s) ==
    KeepIndices(s, {i \in 1..Len(s) : \A j \in 1..(i - 1) : s[j] # s[i]})

\* lines 77-86: the seed list, limit = 0 standing for None
SeedList(column, limit) ==
    LET present == SelectSeq(column, LAMBDA u : u # <<>>)
        cut == IF limit # 0 THEN Take(present, limit) ELSE present
        unique == DedupKeepOrder(cut)
    IN  IF limit # 0 THEN Take(unique, limit) ELSE unique

\* pd.read_csv(outpath, usecols=["fight_url"]): raises on an empty file, on a
\* first line that is no header naming fight_url, and on a line it cannot split
ReadDoneCsv(file) ==
    LET l == file.lines
    IN  IF l = <<>> \/ l[1].kind # "header"
           \/ \E k \in 2..Len(l) : l[k].kind = "junk"
        THEN [ok |-> FALSE, urls |-> {}]
        ELSE [ok |-> TRUE,
              urls |-> {l[k].fight_url : k \in 2..Len(l)} \ {<<>>}]

\* a slip of lines 91-95: the read is not guarded by try/except
LoadDoneUnguarded(resume, file) ==
    IF resume /\ file.exists
    THEN [raised |-> ~ReadDoneCsv(file).ok, done |-> ReadDoneCsv(file).urls]
    ELSE [raised |-> FALSE, done |-> {}]

\* lines 89-95: the resume set
LoadDone(resume, file) ==
    IF resume /\ file.exists
    THEN [raised |-> FALSE,
          done |-> IF ReadDoneCsv(file).ok THEN ReadDoneCsv(file).urls ELSE {}]
    ELSE [raised |-> FALSE, done |-> {}]

\* a slip of line 102: open(outpath, "w")
OpenTruncate(file) == File(<<>>)

\* line 102: open(outpath, "a") creates an absent file and keeps the content
OpenAppend(file) == File(file.lines)

\* the fight_url columns the driver may be given
FightColumns ==
    {<<F_a_http>>, <<F_a_www, F_b_www>>, <<F_a_www, F_a_http>>,
     <<F_b_www, <<>>, F_b_www, F_a_www>>}

\* the output file before the first run: none, or one that is not a CSV
FightInitialFiles == {ABSENT, File(<<JunkLine>>)}

\* --limit: None (0 here) or the first N fights
FightLimits == {0, 1}

\* the locals of a run (pc, resume, base, fight_urls, done, is_new, writer,
\* processed, i), the text written and not yet flushed (buf), and what the
\* run did so far: the file it found (out0), the lines it flushed, the URLs
\* it fetched, the seeds it skipped, the URLs that failed and those printed
\* as failures; fresh: the first run found no file and later ones resumed
FightNoRun ==
    [pc |-> "ended", status |-> "none", runs |-> 0, resume |-> FALSE, limit |-> 0,
     base |-> <<>>, fight_urls |-> <<>>, done |-> {}, is_new |-> FALSE,
     writer |-> "None", buf |-> <<>>, processed |-> 0, i |-> 1,
     out0 |-> ABSENT, flushed |-> <<>>, fetched |-> <<>>, skipped |-> {},
     failed |-> {}, logged |-> {}, why |-> "none", fresh |-> TRUE]

FightIdle ==
    /\ fight_in = [column |-> <<>>, limit |-> 0]
    /\ fight_out = ABSENT
    /\ fight = FightNoRun

\* the same input CSV and --limit for every run of one behaviour
FightInit ==
    /\ fight_in \in [column : FightColumns, limit : FightLimits]
    /\ fight_out \in FightInitialFiles
    /\ fight = [FightNoRun EXCEPT !.fresh = (fight_out = ABSENT)]

\* lines 72-105 of one invocation: the seed list, the resume set, the base
\* URL, and the output opened for append
FightStart ==
    /\ fight.pc = "ended"
    /\ fight_in.column # <<>>
    /\ fight.runs < MaxRuns
    /\ \E resume \in BOOLEAN, b \in {pick_base_url(reach) : reach \in Reachability} :
          LET loaded == LoadDone(resume, fight_out)
              limit == fight_in.limit
              begun == [FightNoRun EXCEPT
                          !.runs = fight.runs + 1, !.resume = resume,
                          !.limit = limit, !.out0 = fight_out,
                          !.fight_urls = SeedList(fight_in.column, limit),
                          !.done = loaded.done,
                          !.fresh = fight.fresh /\ (fight.runs = 0 \/ resume)]
          IN  IF loaded.raised \/ b = 0
              THEN /\ fight' = [begun EXCEPT
                                  !.status = "error",
                                  !.why = IF loaded.raised THEN "resume"
                                          ELSE "unreachable"]
                   /\ UNCHANGED fight_out
              ELSE /\ fight' = [begun EXCEPT
                                  !.pc = "loop", !.status = "running",
                                  !.base = BaseUrls[b],
                                  !.is_new = ~fight_out.exists]
                   /\ fight_out' = OpenAppend(fight_out)
    /\ UNCHANGED <<fight_in>>
    /\ UNCHANGED notFight

FightSeed == fight.fight_urls[fight.i]
FightUrl == normalize_ufcstats_url(FightSeed, fight.base)
FightInLoop == fight.pc = "loop" /\ fight.i <= Len(fight.fight_urls)

\* lines 108-109: the seed is in the resume set
FightSkipDone ==
    /\ FightInLoop
    /\ FightSeed \in fight.done
    /\ fight' = [fight EXCEPT !.i = @ + 1, !.skipped = @ \cup {FightSeed}]
    /\ UNCHANGED <<fight_in, fight_out>>
    /\ UNCHANGED notFight

\* lines 114-119: fetch_html raised; back off and go on, nothing printed
FightFetchFail ==
    /\ FightInLoop
    /\ FightSeed \notin fight.done
    /\ "raised" \in FetchOutcomes(FightUrl, FightRetries)
    /\ fight' = [fight EXCEPT !.i = @ + 1,
                              !.fetched = Append(@, FightUrl),
                              !.failed = @ \cup {FightUrl}]
    /\ UNCHANGED <<fight_in, fight_out>>
    /\ UNCHANGED notFight

\* line 122 raises: the exception leaves the loop through finally: f.close()
FightParseRaise ==
    /\ FightInLoop
    /\ FightSeed \notin fight.done
    /\ "returned" \in FetchOutcomes(FightUrl, FightRetries)
    /\ fight' = [fight EXCEPT !.pc = "ended", !.status = "error",
                              !.why = "parse",
                              !.fetched = Append(@, FightUrl),
                              !.failed = @ \cup {FightUrl}]
    /\ UNCHANGED <<fight_in, fight_out>>
    /\ UNCHANGED notFight

\* lines 115-131: fetched and parsed; the writer is made on the first row, the
\* header goes out only to a file this run created, and the row is written
FightWriteRow ==
    /\ FightInLoop
    /\ FightSeed \notin fight.done
    /\ "returned" \in FetchOutcomes(FightUrl, FightRetries)
    /\ fight' = [fight EXCEPT
                    !.pc = "flush", !.writer = "set",
                    !.fetched = Append(@, FightUrl),
                    !.buf = (IF fight.writer = "None" /\ fight.is_new
                             THEN <<HeaderLine>> ELSE <<>>)
                            \o <<RowLine(FightUrl)>>]
    /\ UNCHANGED <<fight_in, fight_out>>
    /\ UNCHANGED notFight

\* lines 132-138: f.flush(), the count, the politeness sleep
FightFlush ==
    /\ fight.pc = "flush"
    /\ fight_out' = File(fight_out.lines \o fight.buf)
    /\ fight' = [fight EXCEPT !.pc = "loop", !.buf = <<>>, !.i = @ + 1,
                              !.flushed = @ \o fight.buf,
                              !.processed = @ + 1]
    /\ UNCHANGED <<fight_in>>
    /\ UNCHANGED notFight

\* lines 140-144: the loop is over; close, print the count, return outpath
FightFinish ==
    /\ fight.pc = "loop"
    /\ fight.i > Len(fight.fight_urls)
    /\ fight' = [fight EXCEPT !.pc = "ended", !.status = "success"]
    /\ UNCHANGED <<fight_in, fight_out>>
    /\ UNCHANGED notFight

\* the process is killed: what was written and not flushed is lost
FightKill ==
    /\ fight.pc \in {"loop", "flush"}
    /\ fight' = [fight EXCEPT !.pc = "ended", !.status = "killed", !.buf = <<>>]
    /\ UNCHANGED <<fight_in, fight_out>>
    /\ UNCHANGED notFight

(***************************************************************************)
(* scripts/ingest/ingest_event_details.py, ingest_fighter_details.py       *)
(***************************************************************************)
\* p.add_argument("--retries", type=int, default=3)
DetailsRetries == 3

E_abc_www == P_https_www \o S_event_abc
E_abc_http == P_http_bare \o S_event_abc
E_xyz_www == P_https_www \o S_event_xyz
R_x_www == P_https_www \o S_fighter_x
R_x_http == P_http_bare \o S_fighter_x
R_y_www == P_https_www \o <<"/", "y">>

\* the event_url (fighter_url) cells of the directory CSV a driver reads
DetailsColumns ==
    [event |-> {<<>>, <<E_abc_www>>, <<E_abc_http, E_xyz_www>>,
                <<E_abc_www, <<" ">>, E_abc_www>>},
     fighter |-> {<<>>, <<R_x_www>>, <<R_x_http, R_y_www>>,
                  <<R_x_www, <<" ">>, R_x_http>>}]

DetailsLimits == {0, 1}

\* what parse_event_details can return for a page: the bout links of its rows
EventPages == {<<>>, <<S_fight_a>>, <<S_fight_a, S_fight_b>>}

\* read_event_directory_csv / read_fighter_directory_csv, then the limit:
\* rows with an empty key are left out; limit = 0 stands for None
DetailsSeeds(column, limit) ==
    LET rows == SelectSeq(column, LAMBDA u : Strip(u) # <<>>)
    IN  IF limit > 0 THEN Take(rows, limit) ELSE rows

DetailsNoRun ==
    [kind |-> "none", pc |-> "ended", status |-> "none", why |-> "none",
     column |-> <<>>, limit |-> 0, seeds |-> <<>>, base |-> <<>>, i |-> 1,
     records |-> <<>>, seen |-> {}, visited |-> {}, failed |-> {},
     logged |-> {}, parsed |-> <<>>, outfile |-> ABSENT]

DetailsIdle == details = DetailsNoRun

DetailsInit ==
    \E k \in {"event", "fighter"}, lim \in DetailsLimits :
        \E col \in DetailsColumns[k] :
            details = [DetailsNoRun EXCEPT !.kind = k, !.pc = "start",
                                           !.column = col, !.limit = lim]

\* ingest_event_details lines 65-82 and ingest_fighter_details lines 71-88:
\* no seed is fatal, and so is an unreachable site
DetailsStart ==
    /\ details.pc = "start"
    /\ \E b \in {pick_base_url(reach) : reach \in Reachability} :
          LET seeds == DetailsSeeds(details.column, details.limit)
          IN  details' =
                IF seeds = <<>>
                THEN [details EXCEPT !.pc = "ended", !.status = "error",
                                     !.why = "no_seeds"]
                ELSE IF b = 0
                THEN [details EXCEPT !.pc = "ended", !.status = "error",
                                     !.why = "unreachable", !.seeds = seeds]
                ELSE [details EXCEPT !.pc = "loop", !.status = "running",
                                     !.seeds = seeds, !.base = BaseUrls[b]]
    /\ UNCHANGED notDetails

DetailsInLoop(k) ==
    details.kind = k /\ details.pc = "loop" /\ details.i <= Len(details.seeds)
DetailsUrl ==
    normalize_ufcstats_url(Strip(details.seeds[details.i]), details.base)

\* ingest_event_details lines 89-93: fetch failed, logged with the URL
EventFetchFail ==
    /\ DetailsInLoop("event")
    /\ "raised" \in FetchOutcomes(DetailsUrl, DetailsRetries)
    /\ details' = [details EXCEPT !.i = @ + 1,
                                  !.visited = @ \cup {details.i},
                                  !.failed = @ \cup {details.i},
                                  !.logged = @ \cup {LogLine("fetch", DetailsUrl)}]
    /\ UNCHANGED notDetails

\* ingest_event_details lines 95-99: the parser raised, logged with the URL
EventParseRaise ==
    /\ DetailsInLoop("event")
    /\ "returned" \in FetchOutcomes(DetailsUrl, DetailsRetries)
    /\ details' = [details EXCEPT !.i = @ + 1,
                                  !.visited = @ \cup {details.i},
                                  !.failed = @ \cup {details.i},
                                  !.logged = @ \cup {LogLine("parse", DetailsUrl)}]
    /\ UNCHANGED notDetails

\* lines 110-112: bout_url, or event_url + "__" + bout_order when it is empty
BoutKey(br) ==
    IF br.bout_url # <<>> THEN br.bout_url
    ELSE br.event_url \o <<"_", "_">> \o <<br.bout_order>>

\* a slip of lines 114-116: the key is looked up but never remembered
RECURSIVE AddBoutsForgetful(_, _, _)
AddBoutsForgetful(acc, seen, bouts) ==
    IF bouts = <<>> THEN [records |-> acc, seen |-> seen]
    ELSE LET br == Head(bouts)
             key == BoutKey(br)
         IN  IF key = <<>> \/ key \in seen
             THEN AddBoutsForgetful(acc, seen, Tail(bouts))
             ELSE AddBoutsForgetful(Append(acc, br), seen, Tail(bouts))

\* lines 102-117: the bouts of one page, each appended unless its key was seen
RECURSIVE AddBouts(_, _, _)
AddBouts(acc, seen, bouts) ==
    IF bouts = <<>> THEN [records |-> acc, seen |-> seen]
    ELSE LET br == Head(bouts)
             key == BoutKey(br)
         IN  IF key = <<>> \/ key \in seen
             THEN AddBouts(acc, seen, Tail(bouts))
             ELSE AddBouts(Append(acc, br), seen \cup {key}, Tail(bouts))

\* ingest_event_details lines 89-123: the page is fetched and parsed;
\* `parsed` keeps every bout the parser returned, in feed order
EventParsed ==
    /\ DetailsInLoop("event")
    /\ "returned" \in FetchOutcomes(DetailsUrl, DetailsRetries)
    /\ \E page \in EventPages :
          LET bouts == [k \in 1..Len(page) |->
                  [bout_url |-> normalize_ufcstats_url(
                                    P_http_bare \o page[k], details.base),
                   bout_order |-> k, event_url |-> DetailsUrl,
                   seed |-> details.i]]
              added == AddBouts(details.records, details.seen, bouts)
          IN  details' = [details EXCEPT !.i = @ + 1,
                                         !.visited = @ \cup {details.i},
                                         !.records = added.records,
                                         !.seen = added.seen,
                                         !.parsed = @ \o bouts]
    /\ UNCHANGED notDetails

\* lines 125-157 (136-156): no record is fatal, else the snapshot is written
DetailsEnd(d) ==
    IF d.records = <<>>
    THEN [d EXCEPT !.pc = "ended", !.status = "error", !.why = "empty"]
    ELSE [d EXCEPT !.pc = "ended", !.status = "success",
                   !.outfile = File(d.records)]

EventFinish ==
    /\ details.kind = "event"
    /\ details.pc = "loop"
    /\ details.i > Len(details.seeds)
    /\ details' = DetailsEnd(details)
    /\ UNCHANGED notDetails

\* ingest_fighter_details lines 97-100: the URL was already seen
FighterSkipSeen ==
    /\ DetailsInLoop("fighter")
    /\ DetailsUrl \in details.seen
    /\ details' = [details EXCEPT !.i = @ + 1]
    /\ UNCHANGED notDetails

\* ingest_fighter_details lines 102-106
FighterFetchFail ==
    /\ DetailsInLoop("fighter")
    /\ DetailsUrl \notin details.seen
    /\ "raised" \in FetchOutcomes(DetailsUrl, DetailsRetries)
    /\ details' = [details EXCEPT !.i = @ + 1,
                                  !.seen = @ \cup {DetailsUrl},
                                  !.visited = @ \cup {details.i},
                                  !.failed = @ \cup {details.i},
                                  !.logged = @ \cup {LogLine("fetch", DetailsUrl)}]
    /\ UNCHANGED notDetails

\* ingest_fighter_details lines 108-112
FighterParseRaise ==
    /\ DetailsInLoop("fighter")
    /\ DetailsUrl \notin details.seen
    /\ "returned" \in FetchOutcomes(DetailsUrl, DetailsRetries)
    /\ details' = [details EXCEPT !.i = @ + 1,
                                  !.seen = @ \cup {DetailsUrl},
                                  !.visited = @ \cup {details.i},
                                  !.failed = @ \cup {details.i},
                                  !.logged = @ \cup {LogLine("parse", DetailsUrl)}]
    /\ UNCHANGED notDetails

\* ingest_fighter_details lines 102-134: one row for the fighter
FighterParsed ==
    /\ DetailsInLoop("fighter")
    /\ DetailsUrl \notin details.seen
    /\ "returned" \in FetchOutcomes(DetailsUrl, DetailsRetries)
    /\ details' = [details EXCEPT
                      !.i = @ + 1,
                      !.seen = @ \cup {DetailsUrl},
                      !.visited = @ \cup {details.i},
                      !.records = Append(@, [fighter_url |-> DetailsUrl,
                                             seed |-> details.i])]
    /\ UNCHANGED notDetails

FighterFinish ==
    /\ details.kind = "fighter"
    /\ details.pc = "loop"
    /\ details.i > Len(details.seeds)
    /\ details' = DetailsEnd(details)
    /\ UNCHANGED notDetails

(***************************************************************************)
(* scripts/ingest/ingest_event_directory.py, ingest_fighter_directory.py   *)
(***************************************************************************)
\* parser.add_argument("--retries", type=int, default=3)
DirectoryRetries == 3

\* DEFAULT_CHARS, cut to the first MaxChars letters
DirectoryChars == SubSeq(UpperChars, 1, MaxChars)

S_events_path == <<"/", "e", "v", "e", "n", "t", "s">>
S_fighters_path == <<"/", "f", "i", "g", "h", "t", "e", "r", "s", "?">>

\* what a directory page can parse to: the detail links of its rows
DirectoryPages ==
    [event |-> {<<>>, <<S_event_abc>>, <<S_event_abc, S_event_xyz, S_event_abc>>},
     fighter |-> {<<>>, <<S_fighter_x>>, <<S_fighter_x, S_fighter_x>>}]

\* a snapshot left by an earlier run for the same date
OldSnapshot == File(<<[url |-> <<"o", "l", "d">>, char |-> "A"]>>)

DirectoryNoRun ==
    [kind |-> "none", pc |-> "ended", status |-> "none", why |-> "none",
     chars |-> <<>>, c |-> 1, base |-> <<>>, all_rows |-> <<>>,
     fetch_failed |-> {}, empty |-> {}, out0 |-> ABSENT, outfile |-> ABSENT]

DirectoryIdle == directory = DirectoryNoRun

\* the event directory is one page; the fighter directory one page per char
DirectoryInit ==
    \E k \in {"event", "fighter"}, old \in {ABSENT, OldSnapshot},
       n \in 1..MaxChars :
        /\ k = "event" => n = 1
        /\ directory = [DirectoryNoRun EXCEPT
                           !.kind = k, !.pc = "start",
                           !.chars = SubSeq(DirectoryChars, 1, n),
                           !.out0 = old, !.outfile = old]

\* session = requests.Session(); base_url = pick_base_url(session)
DirectoryStart ==
    /\ directory.pc = "start"
    /\ \E b \in {pick_base_url(reach) : reach \in Reachability} :
          directory' =
             IF b = 0
             THEN [directory EXCEPT !.pc = "ended", !.status = "error",
                                    !.why = "unreachable"]
             ELSE [directory EXCEPT !.pc = "loop", !.status = "running",
                                    !.base = BaseUrls[b]]
    /\ UNCHANGED notDirectory

DirectoryInLoop(k) ==
    /\ directory.kind = k
    /\ directory.pc = "loop"
    /\ directory.c <= Len(directory.chars)

EventsUrl == normalize_ufcstats_url(directory.base \o S_events_path, directory.base)
FightersUrl == directory.base \o S_fighters_path \o <<directory.chars[directory.c]>>

\* the rows a parser returns for a page, URLs normalized onto the base
DirectoryRows(page) ==
    [k \in 1..Len(page) |->
        [url |-> normalize_ufcstats_url(P_http_bare \o page[k], directory.base),
         char |-> directory.chars[directory.c]]]

\* df.drop_duplicates(subset=[key]).reset_index(drop=True)
DropDuplicateUrls(rows) ==
    KeepIndices(rows, {i \in 1..Len(rows) :
        \A j \in 1..(i - 1) : rows[j].url # rows[i].url})

\* fetch_html raises out of the driver: nothing is caught
DirectoryFetchRaised(d) ==
    [d EXCEPT !.pc = "ended", !.status = "error", !.why = "fetch",
              !.fetch_failed = @ \cup {d.c}]

\* ingest_event_directory line 57: the page cannot be fetched
EventDirFetchFail ==
    /\ DirectoryInLoop("event")
    /\ "raised" \in FetchOutcomes(EventsUrl, DirectoryRetries)
    /\ directory' = DirectoryFetchRaised(directory)
    /\ UNCHANGED notDirectory

\* ingest_event_directory lines 57-79: no row is fatal, else the rows are
\* deduplicated and written
EventDirParsed ==
    /\ DirectoryInLoop("event")
    /\ "returned" \in FetchOutcomes(EventsUrl, DirectoryRetries)
    /\ \E page \in DirectoryPages.event :
          directory' =
             IF page = <<>>
             THEN [directory EXCEPT !.pc = "ended", !.status = "error",
                                    !.why = "empty", !.empty = @ \cup {directory.c}]
             ELSE [directory EXCEPT
                      !.pc = "ended", !.status = "success", !.c = @ + 1,
                      !.all_rows = DirectoryRows(page),
                      !.outfile = File(DropDuplicateUrls(DirectoryRows(page)))]
    /\ UNCHANGED notDirectory

\* ingest_fighter_directory line 59: a page cannot be fetched
FighterDirFetchFail ==
    /\ DirectoryInLoop("fighter")
    /\ "raised" \in FetchOutcomes(FightersUrl, DirectoryRetries)
    /\ directory' = DirectoryFetchRaised(directory)
    /\ UNCHANGED notDirectory

\* ingest_fighter_directory lines 59-71: a page without rows is passed over
\* ("Not fatal: some letters may be empty"), the rows of another are kept
FighterDirPage ==
    /\ DirectoryInLoop("fighter")
    /\ "returned" \in FetchOutcomes(FightersUrl, DirectoryRetries)
    /\ \E page \in DirectoryPages.fighter :
          directory' =
             IF page = <<>>
             THEN [directory EXCEPT !.c = @ + 1, !.empty = @ \cup {directory.c}]
             ELSE [directory EXCEPT !.c = @ + 1,
                                    !.all_rows = @ \o DirectoryRows(page)]
    /\ UNCHANGED notDirectory

\* a slip of lines 73-74: the table is written even when it is empty
FighterDirEndUnguarded(d) ==
    [d EXCEPT !.pc = "ended", !.status = "success",
              !.outfile = File(DropDuplicateUrls(d.all_rows))]

\* ingest_fighter_directory lines 73-108
FighterDirEnd(d) ==
    IF d.all_rows = <<>>
    THEN [d EXCEPT !.pc = "ended", !.status = "error", !.why = "empty"]
    ELSE [d EXCEPT !.pc = "ended", !.status = "success",
                   !.outfile = File(DropDuplicateUrls(d.all_rows))]

FighterDirFinish ==
    /\ directory.kind = "fighter"
    /\ directory.pc = "loop"
    /\ directory.c > Len(directory.chars)
    /\ directory' = FighterDirEnd(directory)
    /\ UNCHANGED notDirectory

(***************************************************************************)
(* scripts/build/build_fact_bout.py: _to_int_series                        *)
(***************************************************************************)
Digits == <<"0", "1", "2", "3", "4", "5", "6", "7", "8", "9">>

IsDigit(c) == \E d \in 1..10 : Digits[d] = c

DigitValue(c) == (CHOOSE d \in 1..10 : Digits[d] = c) - 1

AllDigits(s) == \A k \in 1..Len(s) : IsDigit(s[k])

\* the value of a run of decimal digits
RECURSIVE DigitsValue(_)
DigitsValue(s) ==
    IF s = <<>> THEN 0
    ELSE 10 * DigitsValue(SubSeq(s, 1, Len(s) - 1)) + DigitValue(s[Len(s)])

S_dashes == <<"-", "-">>

\* the markers of a cell: "na" for <NA>/NaN, "int" for a whole number,
\* "frac" for a float with a fractional part
NA == [kind |-> "na", value |-> 0]

\* pd.to_numeric(..., errors="coerce") on one string: a signed run of digits
\* is an integer, a signed decimal with a point is a float, any other text
\* is NaN (exponents and inf/nan spellings are not among the cells modelled)
to_numeric(s) ==
    LET signed == s # <<>> /\ s[1] \in {"-", "+"}
        sign == IF signed /\ s[1] = "-" THEN -1 ELSE 1
        body == IF signed THEN Drop(s, 1) ELSE s
        dots == {k \in 1..Len(body) : body[k] = "."}
        dot == CHOOSE k \in dots : TRUE
        whole == SubSeq(body, 1, dot - 1)
        part == SubSeq(body, dot + 1, Len(body))
    IN  IF body # <<>> /\ AllDigits(body)
        THEN [kind |-> "int", value |-> sign * DigitsValue(body)]
        ELSE IF /\ Cardinality(dots) = 1
                /\ AllDigits(whole) /\ AllDigits(part)
                /\ Len(whole) + Len(part) > 0
        THEN [kind |-> IF DigitsValue(part) = 0 THEN "int" ELSE "frac",
              value |-> sign * DigitsValue(whole)]
        ELSE NA

\* s.replace({"": pd.NA, "--": pd.NA}), then to_numeric, on one cleaned cell
to_numeric_cell(s) ==
    LET c == clean_text_series(s)
    IN  IF c = <<>> \/ c = S_dashes THEN NA ELSE to_numeric(c)

\* .astype("Int64") refuses a float column holding a fractional value
\* (TypeError: cannot safely cast non-equivalent float64 to int64)
astype_Int64(values) ==
    IF \E k \in 1..Len(values) : values[k].kind = "frac"
    THEN [raised |-> TRUE, values |-> <<>>]
    ELSE [raised |-> FALSE, values |-> values]

\* _to_int_series on a column
to_int_series(column) ==
    astype_Int64([k \in 1..Len(column) |-> to_numeric_cell(column[k])])

K_blank == <<>>
K_3 == <<"3">>
K_abc == <<"a", "b", "c">>
K_3_5 == <<"3", ".", "5">>
K_1_of_2 == <<"1", " ", "o", "f", " ", "2">>
K_padded_7 == <<" ", "7", NBSP>>
K_minus_2 == <<"-", "2">>
K_12 == <<"1", "2">>
K_3_0 == <<"3", ".", "0">>
K_dash == <<"-">>

NumericCells == {K_blank, S_dashes, K_3, K_abc, K_3_5, K_1_of_2, K_padded_7,
                 K_minus_2, K_12, K_3_0, K_dash}

\* the nine columns typed by lines 105-113
NumericFields == {"bout_order", "kd_1", "str_1", "td_1", "sub_1",
                  "kd_2", "str_2", "td_2", "sub_2"}

CoerceIdle == coerce = [phase |-> "idle"]

CoerceInit ==
    \E column \in Tables(NumericCells, MaxRows) :
        coerce = [phase |-> "read", column |-> column]

\* df[field] = _to_int_series(df[field])
CoerceColumn ==
    /\ coerce.phase = "read"
    /\ LET r == to_int_series(coerce.column)
       IN  coerce' = [phase |-> IF r.raised THEN "raised" ELSE "typed",
                      column |-> coerce.column, values |-> r.values]
    /\ UNCHANGED notCoerce

(***************************************************************************)
(* scripts/build/build_fact_bout.py: build_fact_bout                       *)
(***************************************************************************)
LowerChar(c) ==
    IF \E i \in 1..Len(UpperChars) : UpperChars[i] = c
    THEN LowerChars[CHOOSE i \in 1..Len(UpperChars) : UpperChars[i] = c]
    ELSE c

\* str.lower()
Lower(s) == [i \in 1..Len(s) |-> LowerChar(s[i])]

\* the float NaN a left merge leaves where no right row matched; it is not
\* the text "nan"
NaN == "<NaN>"

\* bool.astype(str)
BoolStr(b) == IF b THEN "True" ELSE "False"

\* _infer_is_ufc_from_name, on one cell
infer_is_ufc_from_name(event_name) ==
    LET name == Upper(clean_text_series(event_name))
    IN  StartsWith(name, S_UFC_) \/ Contains(name, S_UFC_FIGHT_NIGHT)

\* the `required` list of lines 66-87
RequiredBoutColumns ==
    {"snapshot", "event_url", "bout_url", "bout_order", "fighter_1_url",
     "fighter_2_url", "fighter_1_result", "fighter_2_result", "kd_1", "str_1",
     "td_1", "sub_1", "kd_2", "str_2", "td_2", "sub_2", "weight_class_raw",
     "method_raw", "round_raw", "time_raw"}

\* lines 93-96: clean key strings (src: the row's place in the input)
FactBoutClean(r, i) ==
    [src |-> i,
     bout_url |-> clean_text_series(r.bout_url),
     event_url |-> clean_text_series(r.event_url),
     fighter_1_url |-> clean_text_series(r.fighter_1_url),
     fighter_2_url |-> clean_text_series(r.fighter_2_url),
     fighter_1_result |-> r.fighter_1_result,
     fighter_2_result |-> r.fighter_2_result,
     weight_class_raw |-> r.weight_class_raw,
     nums |-> r.nums,
     has_winner |-> FALSE,
     is_ufc |-> NaN]

\* df.drop_duplicates(subset=["bout_url"], keep="first")
DropDuplicateBouts(rows) ==
    KeepIndices(rows, {i \in 1..Len(rows) :
        \A j \in 1..(i - 1) : rows[j].bout_url # rows[i].bout_url})

\* lines 105-113: each numeric column through _to_int_series
TypeNumeric(rows) ==
    LET typed == [f \in NumericFields |->
                    to_int_series([k \in 1..Len(rows) |-> rows[k].nums[f]])]
    IN  IF \E f \in NumericFields : typed[f].raised
        THEN [raised |-> TRUE, rows |-> <<>>]
        ELSE [raised |-> FALSE,
              rows |-> [k \in 1..Len(rows) |->
                  [rows[k] EXCEPT !.nums = [f \in NumericFields |-> typed[f].values[k]]]]]

S_win == <<"w", "i", "n">>

\* a slip of line 120: the result of the first fighter only
has_winner_first_only(r) ==
    Lower(clean_text_series(r.fighter_1_result)) = S_win

\* lines 118-120: (r1 == "win") | (r2 == "win")
has_winner(r) ==
    \/ Lower(clean_text_series(r.fighter_1_result)) = S_win
    \/ Lower(clean_text_series(r.fighter_2_result)) = S_win

\* lines 130-132: the two columns kept of dim_event, the key cleaned
DimEventKeys(de) ==
    [k \in 1..Len(de) |->
        [event_url |-> clean_text_series(de[k].event_url), is_ufc |-> de[k].is_ufc]]

\* df.merge(de, on="event_url", how="left"): every left row once per matching
\* right row, in left order, and once with NaN when nothing matches
RECURSIVE MergeDimEvent(_, _)
MergeDimEvent(rows, de) ==
    IF rows = <<>> THEN <<>>
    ELSE LET r == Head(rows)
             m == SelectSeq(de, LAMBDA d : d.event_url = r.event_url)
         IN  (IF m = <<>> THEN <<[r EXCEPT !.is_ufc = NaN]>>
              ELSE [k \in 1..Len(m) |-> [r EXCEPT !.is_ufc = m[k].is_ufc]])
             \o MergeDimEvent(Tail(rows), de)

\* line 138: df["is_ufc"].isin(["", "nan", "None"]) picks the rows that take
\* the value inferred from the name
FallbackToName(rows, raw) ==
    [k \in 1..Len(rows) |->
        IF rows[k].is_ufc \in {"", "nan", "None"}
        THEN [rows[k] EXCEPT
                 !.is_ufc = BoolStr(infer_is_ufc_from_name(raw[rows[k].src].event_name))]
        ELSE rows[k]]

\* lines 122-143
AddIsUfc(rows, raw, dim, has_name) ==
    IF dim.given
    THEN IF ~dim.ok THEN [raised |-> TRUE, rows |-> <<>>]
         ELSE LET merged == MergeDimEvent(rows, DimEventKeys(dim.rows))
              IN  [raised |-> FALSE,
                   rows |-> IF has_name THEN FallbackToName(merged, raw) ELSE merged]
    ELSE [raised |-> FALSE,
          rows |-> [k \in 1..Len(rows) |->
              [rows[k] EXCEPT !.is_ufc =
                  IF has_name
                  THEN BoolStr(infer_is_ufc_from_name(raw[rows[k].src].event_name))
                  ELSE ""]]]

\* build_fact_bout, from the tables read to the table written or the error
build_fact_bout(raw, missing, dim, has_name) ==
    LET cleaned == [i \in 1..Len(raw) |-> FactBoutClean(raw[i], i)]
        keyed == SelectSeq(cleaned, LAMBDA r : r.bout_url # <<>>)
        unique == DropDuplicateBouts(keyed)
        typed == TypeNumeric(unique)
        won == [k \in 1..Len(typed.rows) |->
                  [typed.rows[k] EXCEPT !.has_winner = has_winner(typed.rows[k])]]
        flagged == AddIsUfc(won, raw, dim, has_name)
    IN  IF missing # {} THEN [raised |-> TRUE, why |-> "schema", rows |-> <<>>]
        ELSE IF typed.raised THEN [raised |-> TRUE, why |-> "coerce", rows |-> <<>>]
        ELSE IF flagged.raised THEN [raised |-> TRUE, why |-> "dim_schema", rows |-> <<>>]
        ELSE [raised |-> FALSE, why |-> "none", rows |-> flagged.rows]

S_bout_a == <<"/", "f", "i", "g", "h", "t", "-", "d", "e", "t", "a", "i", "l", "s", "/", "a">>
S_bout_b == <<"/", "f", "i", "g", "h", "t", "-", "d", "e", "t", "a", "i", "l", "s", "/", "b">>
S_bout_c == <<"/", "f", "i", "g", "h", "t", "-", "d", "e", "t", "a", "i", "l", "s", "/", "c">>
S_event_other == <<"/", "e", "v", "e", "n", "t", "-", "d", "e", "t", "a", "i", "l", "s", "/", "q">>
S_fighter_y == <<"/", "f", "i", "g", "h", "t", "e", "r", "-", "d", "e", "t", "a", "i", "l", "s", "/", "y">>

T_Win == <<"W", "i", "n">>
T_WIN_padded == <<" ", "W", "I", "N", "\n">>
T_winner == <<"w", "i", "n", "n", "e", "r">>
T_loss == <<"l", "o", "s", "s">>
T_draw == <<"d", "r", "a", "w">>
T_nc == <<"n", "c">>
T_welter == <<"W", "e", "l", "t", "e", "r", "w", "e", "i", "g", "h", "t">>

GoodNums == [f \in NumericFields |-> IF f = "bout_order" THEN K_12 ELSE S_dashes]

EventDetailsRow(b, e, n, r1, r2, nums) ==
    [bout_url |-> b, event_url |-> e, event_name |-> n,
     fighter_1_url |-> P_http_bare \o S_fighter_x,
     fighter_2_url |-> P_http_bare \o S_fighter_y,
     fighter_1_result |-> r1, fighter_2_result |-> r2,
     weight_class_raw |-> T_welter, nums |-> nums]

\* the rows a raw event-details snapshot is drawn from
BoutRowPool ==
    {EventDetailsRow(P_http_bare \o S_bout_a, U_abc_http_bare, N_ufc300, T_Win, <<>>, GoodNums),
     EventDetailsRow(<<" ">> \o P_http_bare \o S_bout_a \o <<NBSP>>, U_xyz_http_bare, N_bellator, <<>>, <<>>, GoodNums),
     EventDetailsRow(P_http_bare \o S_bout_b, U_xyz_http_bare, N_bellator, T_winner, <<>>, GoodNums),
     EventDetailsRow(<<" ", NBSP>>, U_abc_http_bare, N_ufc300, T_Win, <<>>, GoodNums),
     EventDetailsRow(P_http_bare \o S_bout_c, P_http_bare \o S_event_other, N_fight_night, T_loss, T_WIN_padded, GoodNums),
     EventDetailsRow(P_http_bare \o S_bout_b, U_abc_padded, N_lower, T_draw, T_nc, GoodNums),
     EventDetailsRow(P_http_bare \o S_bout_c, U_xyz_http_bare, N_road, T_loss, <<>>,
                     [GoodNums EXCEPT !["td_2"] = K_3_5, !["kd_1"] = K_3])}

DimRow(u, v) == [event_url |-> u, is_ufc |-> v]

\* the dim_event tables the builder is given: none, one without its is_ufc
\* column, and tables whose rows match, miss or repeat the event URLs
DimEventInputs ==
    {[given |-> FALSE, ok |-> TRUE, rows |-> <<>>],
     [given |-> TRUE, ok |-> FALSE, rows |-> <<>>]}
    \cup {[given |-> TRUE, ok |-> TRUE, rows |-> t] : t \in
            {<<>>,
             <<DimRow(U_abc_http_bare, "True"), DimRow(U_xyz_http_bare, "False")>>,
             <<DimRow(U_abc_http_bare, "False"), DimRow(U_xyz_http_bare, "")>>,
             <<DimRow(U_abc_padded, "None"), DimRow(U_xyz_http_bare, "nan")>>,
             <<DimRow(U_xyz_http_bare, "True"), DimRow(U_xyz_http_bare, "True")>>}}

OldFactBout == File(<<"old">>)

FactBoutIdle == fact_bout = [phase |-> "idle"]

\* a raw table, the required columns it lacks, whether it has the optional
\* event_name column, the dim_event given and what is at the output path
FactBoutInit ==
    \E raw \in Tables(BoutRowPool, MaxRows),
       missing \in {{}, {"bout_url"}, {"td_2", "time_raw"}},
       dim \in DimEventInputs, has_name \in BOOLEAN,
       old \in {ABSENT, OldFactBout} :
        /\ missing \subseteq RequiredBoutColumns
        /\ missing # {} => ~dim.given /\ has_name
        /\ fact_bout = [phase |-> "read", raw |-> raw, missing |-> missing,
                        dim |-> dim, has_name |-> has_name, why |-> "none",
                        out |-> <<>>, out0 |-> old, outfile |-> old]

\* one run of the builder: it raises, or df.to_csv(outpath) replaces the file
BuildFactBout ==
    /\ fact_bout.phase = "read"
    /\ \E r \in {build_fact_bout(fact_bout.raw, fact_bout.missing,
                                 fact_bout.dim, fact_bout.has_name)} :
           fact_bout' =
              IF r.raised
              THEN [fact_bout EXCEPT !.phase = "error", !.why = r.why]
              ELSE [fact_bout EXCEPT !.phase = "written", !.out = r.rows,
                                     !.outfile = File(r.rows)]
    /\ UNCHANGED notFactBout

(***************************************************************************)
(* scripts/build/build_dim_fighter.py                                      *)
(***************************************************************************)
S_women == <<"w", "o", "m", "e", "n">>
S_nan == <<"n", "a", "n">>

\* the texts line 88 reads as true
TruthyTexts == {<<"1">>, <<"t", "r", "u", "e">>, <<"t">>, <<"y", "e", "s">>, <<"y">>}

\* lines 83-89: .astype(str).str.strip().str.lower().isin([...])
is_ufc_b(text) == Lower(Strip(text)) \in TruthyTexts

\* lines 92-96: .str.contains("women", case=False)
is_women_b(text) == Contains(Lower(text), S_women)

\* a slip of line 114: the second sides are left out
FirstSidesOnly(bouts) ==
    SelectSeq([k \in 1..Len(bouts) |->
                  [fighter_url |-> normalize_ufcstats_url_series(bouts[k].fighter_1_url),
                   is_ufc_bout |-> is_ufc_b(bouts[k].is_ufc),
                   is_female_bout |-> is_women_b(bouts[k].weight_class_raw)]],
              LAMBDA p : p.fighter_url # <<>>)

\* lines 98-115: one participation row per side of each bout, first sides
\* first, rows without a fighter URL dropped
LongParticipations(bouts) ==
    LET side(k, url) == [fighter_url |-> normalize_ufcstats_url_series(url),
                         is_ufc_bout |-> is_ufc_b(bouts[k].is_ufc),
                         is_female_bout |-> is_women_b(bouts[k].weight_class_raw)]
        f1 == [k \in 1..Len(bouts) |-> side(k, bouts[k].fighter_1_url)]
        f2 == [k \in 1..Len(bouts) |-> side(k, bouts[k].fighter_2_url)]
    IN  SelectSeq(f1 \o f2, LAMBDA p : p.fighter_url # <<>>)

\* _mode_bool: the value value_counts() lists first, the more frequent one;
\* `tie` stands for the order value_counts gives two equal counts
mode_bool(x, tie) ==
    LET yes == Cardinality({k \in 1..Len(x) : x[k]})
        no == Cardinality({k \in 1..Len(x) : ~x[k]})
    IN  IF yes > no THEN TRUE ELSE IF yes < no THEN FALSE ELSE tie

\* _to_int64_bool
to_int64_bool(b) == IF b THEN 1 ELSE 0

\* lines 117-137: the flags of each fighter_url of the participations
build_flags_from_fact_bout(bouts, tie) ==
    LET long_df == LongParticipations(bouts)
        keys == {long_df[k].fighter_url : k \in 1..Len(long_df)}
        of(u) == SelectSeq(long_df, LAMBDA p : p.fighter_url = u)
    IN  [u \in keys |->
            [is_ufc_fighter |->
                to_int64_bool(\E k \in 1..Len(of(u)) : of(u)[k].is_ufc_bout),
             is_female |->
                to_int64_bool(mode_bool(
                    [k \in 1..Len(of(u)) |-> of(u)[k].is_female_bout], tie))]]

\* lines 163 and 176 (164 and 177): the key normalized, then cleaned
NormalizeKey(rows) ==
    [k \in 1..Len(rows) |->
        [rows[k] EXCEPT !.fighter_url =
            clean_text_series(normalize_ufcstats_url_series(rows[k].fighter_url))]]

\* lines 180-185: drop empty keys, then drop_duplicates(subset=["fighter_url"])
DropDuplicateFighters(rows) ==
    LET keyed == SelectSeq(rows, LAMBDA r : r.fighter_url # <<>>)
    IN  KeepIndices(keyed, {i \in 1..Len(keyed) :
            \A j \in 1..(i - 1) : keyed[j].fighter_url # keyed[i].fighter_url})

\* a slip of line 185: the details rows are joined as they are
KeepDuplicateFighters(rows) == SelectSeq(rows, LAMBDA r : r.fighter_url # <<>>)

\* the details side as deduplicated for the join (lines 181, 185)
DedupDetails(rows) == DropDuplicateFighters(rows)

\* line 188: dir_df.merge(det_df, on="fighter_url", how="left"); a directory
\* row without a details row gets NaN in the details columns.  `names` says
\* whether the details table has a first_name column, so that the join
\* yields a first_name_details column
RECURSIVE MergeDetails(_, _, _)
MergeDetails(dir, det, names) ==
    IF dir = <<>> THEN <<>>
    ELSE LET r == Head(dir)
             m == SelectSeq(det, LAMBDA d : d.fighter_url = r.fighter_url)
             joined(d) == [fighter_url |-> r.fighter_url,
                           first_name |-> r.first_name,
                           first_name_details |-> d.first_name,
                           dob_raw |-> d.dob_raw, matched |-> d.matched,
                           named |-> names]
         IN  (IF m = <<>>
              THEN <<joined([first_name |-> <<>>, dob_raw |-> <<>>, matched |-> FALSE])>>
              ELSE [k \in 1..Len(m) |->
                      joined([first_name |-> m[k].first_name,
                              dob_raw |-> m[k].dob_raw, matched |-> TRUE])])
             \o MergeDetails(Tail(dir), det, names)

\* a slip of line 196: the details value wherever there is a details row
BackfillNameAlways(r) ==
    IF ~r.named THEN r.first_name
    ELSE IF r.matched THEN clean_text_series(r.first_name_details)
    ELSE clean_text_series(r.first_name)

\* lines 191-196: where the join has both columns, both are cleaned and
\* first_name is taken from details where the directory has none (the NaN of
\* an unmatched row is cleaned to ""); otherwise first_name is left as read
BackfillName(r) ==
    LET own == clean_text_series(r.first_name)
        other == clean_text_series(r.first_name_details)
    IN  IF ~r.named THEN r.first_name
        ELSE IF own # <<>> THEN own ELSE other

\* _strip_newlines_df on one object cell: astype(str), then "\r" and "\n"
\* replaced by a space; astype(str) writes NaN as the text "nan"
strip_newlines(cell, missing) ==
    IF missing THEN S_nan
    ELSE ReplaceChar(ReplaceChar(cell, "\r", " "), "\n", " ")

\* a slip of lines 208-216: no default for a fighter without flags (-1: <NA>)
FinishFighterNoDefault(r, flags) ==
    LET has == r.fighter_url \in DOMAIN flags
    IN  [fighter_url |-> strip_newlines(r.fighter_url, FALSE),
         first_name |-> strip_newlines(BackfillName(r), FALSE),
         dob_raw |-> strip_newlines(r.dob_raw, ~r.matched),
         is_ufc_fighter |-> IF has THEN flags[r.fighter_url].is_ufc_fighter ELSE -1,
         is_female |-> IF has THEN flags[r.fighter_url].is_female ELSE -1]

\* lines 206-216 and 245-247: the flags joined by key, 0 where there is none,
\* then the final pass over the text columns
FinishFighter(r, flags) ==
    LET has == r.fighter_url \in DOMAIN flags
    IN  [fighter_url |-> strip_newlines(r.fighter_url, FALSE),
         first_name |-> strip_newlines(BackfillName(r), FALSE),
         dob_raw |-> strip_newlines(r.dob_raw, ~r.matched),
         is_ufc_fighter |-> IF has THEN flags[r.fighter_url].is_ufc_fighter ELSE 0,
         is_female |-> IF has THEN flags[r.fighter_url].is_female ELSE 0]

\* the `required` set of line 77
RequiredFlagColumns == {"is_ufc", "weight_class_raw", "fighter_1_url", "fighter_2_url"}

\* build_dim_fighter, from the tables read to the table written or the error;
\* `touched` names the inputs whose rows were already transformed when it
\* raised.  With no participation at all the grouped apply of line 131 has
\* nothing to wrap and what it returns depends on the pandas release: `lib`
\* says whether the rename of that line then raises.
build_dim_fighter(dir, det, names, bouts, schema, tie, lib) ==
    LET dir_df == DropDuplicateFighters(NormalizeKey(dir))
        det_df == DedupDetails(NormalizeKey(det))
        dim == MergeDetails(dir_df, det_df, names)
        flags == build_flags_from_fact_bout(bouts, tie)
    IN  IF ~schema.dir_key
        THEN [raised |-> TRUE, why |-> "schema", touched |-> {}, rows |-> <<>>]
        ELSE IF ~schema.det_key
        THEN [raised |-> TRUE, why |-> "schema", touched |-> {"directory"}, rows |-> <<>>]
        ELSE IF schema.bout_missing # {}
        THEN [raised |-> TRUE, why |-> "schema",
              touched |-> {"directory", "details"}, rows |-> <<>>]
        ELSE IF LongParticipations(bouts) = <<>> /\ lib
        THEN [raised |-> TRUE, why |-> "library",
              touched |-> {"directory", "details", "fact_bout"}, rows |-> <<>>]
        ELSE [raised |-> FALSE, why |-> "none",
              touched |-> {"directory", "details", "fact_bout"},
              rows |-> [k \in 1..Len(dim) |-> FinishFighter(dim[k], flags)]]

S_fighter_z == <<"/", "f", "i", "g", "h", "t", "e", "r", "-", "d", "e", "t", "a", "i", "l", "s", "/", "z">>
X_http == P_http_bare \o S_fighter_x
X_www_slash == P_https_www \o S_fighter_x \o <<"/">>
Y_http == P_http_bare \o S_fighter_y
Z_http == P_http_bare \o S_fighter_z

T_Jon == <<"J", "o", "n">>
T_Jonny == <<" ", "J", "o", "n", "n", "y">>
T_Ann_B == <<"A", "n", "n", "\n", "B">>
T_dob == <<"J", "u", "l", " ", "1", "9", ",", "\r", "\n", "1", "9", "8", "7">>
T_True == <<"T", "r", "u", "e">>
T_False == <<"F", "a", "l", "s", "e">>
T_yes_padded == <<" ", "Y", "e", "s", " ">>
T_womens_straw == <<"W", "o", "m", "e", "n", "'", "s", " ", "S", "t", "r", "a", "w", "w", "e", "i", "g", "h", "t">>
T_WOMENS_fly == <<"U", "F", "C", " ", "W", "O", "M", "E", "N", "'", "S", " ", "F", "l", "y">>

DirectoryRow(u, n) == [fighter_url |-> u, first_name |-> n]
DetailsRow(u, n, d) == [fighter_url |-> u, first_name |-> n, dob_raw |-> d]
FactBoutRow(f1, f2, u, w) ==
    [fighter_1_url |-> f1, fighter_2_url |-> f2, is_ufc |-> u, weight_class_raw |-> w]

\* the rows a fighter-directory snapshot is drawn from
FighterRowPool ==
    {DirectoryRow(X_www_slash, T_Jon), DirectoryRow(X_http, <<>>),
     DirectoryRow(Y_http, <<" ">>), DirectoryRow(<<" ", "/">>, T_Jon)}

\* the fighter-details snapshots: none, one fighter, two variants of one
\* fighter, a fighter that is not in the directory
FighterDetailsInputs ==
    {<<>>,
     <<DetailsRow(X_http, T_Jonny, T_dob)>>,
     <<DetailsRow(X_www_slash, T_Jonny, T_dob), DetailsRow(X_http, T_Ann_B, <<>>)>>,
     <<DetailsRow(Y_http, T_Ann_B, T_dob), DetailsRow(Z_http, T_Jon, <<>>)>>}

FactBoutPool ==
    <<FactBoutRow(X_www_slash, Y_http, T_True, T_womens_straw),
      FactBoutRow(X_http, Z_http, T_False, T_welter),
      FactBoutRow(Y_http, X_www_slash, T_yes_padded, T_WOMENS_fly),
      FactBoutRow(Z_http, <<>>, <<>>, T_welter)>>

\* the fact_bout tables of at most n bouts; the flags are grouped by fighter,
\* so one order of each choice of bouts stands for all of them
RECURSIVE FactBoutTables(_)
FactBoutTables(n) ==
    IF n = 0 THEN {<<>>}
    ELSE LET shorter == FactBoutTables(n - 1)
         IN  shorter \cup
               {<<k>> \o t : k \in 1..Len(FactBoutPool),
                             t \in {s \in shorter : Len(s) = n - 1}}

\* a choice of bouts, written in the order of the pool
Ordered(t) == \A k \in 1..(Len(t) - 1) : t[k] <= t[k + 1]

FactBoutInput(t) == [k \in 1..Len(t) |-> FactBoutPool[t[k]]]

\* every details input is met with a few fact_bout tables, every fact_bout
\* table with one details input
DefaultDetails == <<DetailsRow(X_http, T_Jonny, T_dob)>>
DefaultBouts == {<<>>, <<1>>, <<1, 2, 3>>}

GoodSchema == [dir_key |-> TRUE, det_key |-> TRUE, bout_missing |-> {}]

\* the inputs lacking a required column
BadSchemas ==
    {[GoodSchema EXCEPT !.dir_key = FALSE], [GoodSchema EXCEPT !.det_key = FALSE],
     [GoodSchema EXCEPT !.bout_missing = {"weight_class_raw"}],
     [GoodSchema EXCEPT !.bout_missing = {"is_ufc", "fighter_2_url"}]}

OldDimFighter == File(<<"old">>)

DimFighterIdle == dim_fighter = [phase |-> "idle"]

DimFighterInit ==
    \E dir \in Tables(FighterRowPool, MaxRows), det \in FighterDetailsInputs,
       t \in FactBoutTables(MaxBouts), schema \in {GoodSchema} \cup BadSchemas,
       old \in {ABSENT, OldDimFighter}, names \in BOOLEAN :
        /\ Ordered(t)
        /\ ~names => (schema = GoodSchema /\ old = ABSENT /\ Len(t) <= 1)
        /\ det = DefaultDetails \/ t \in DefaultBouts
        /\ schema.bout_missing \subseteq RequiredFlagColumns
        /\ schema # GoodSchema => Len(dir) = 1 /\ Len(t) = 1
        /\ old = OldDimFighter => (schema # GoodSchema \/ (det = <<>> /\ t = <<>>))
        /\ dim_fighter = [phase |-> "read", dir |-> dir, det |-> det,
                          det_names |-> names,
                          bouts |-> FactBoutInput(t), schema |-> schema,
                          why |-> "none", touched |-> {}, out |-> <<>>,
                          out0 |-> old, outfile |-> old]

\* one run of the builder: it raises, or dim.to_csv(outpath) replaces the file
BuildDimFighter ==
    /\ dim_fighter.phase = "read"
    /\ \E tie \in BOOLEAN,
          lib \in IF LongParticipations(dim_fighter.bouts) = <<>> THEN BOOLEAN ELSE {FALSE} :
          \E r \in {build_dim_fighter(dim_fighter.dir, dim_fighter.det,
                                      dim_fighter.det_names,
                                      dim_fighter.bouts, dim_fighter.schema, tie, lib)} :
              dim_fighter' =
                 IF r.raised
                 THEN [dim_fighter EXCEPT !.phase = "error", !.why = r.why,
                                          !.touched = r.touched]
                 ELSE [dim_fighter EXCEPT !.phase = "written", !.out = r.rows,
                                          !.touched = r.touched,
                                          !.outfile = File(r.rows)]
    /\ UNCHANGED notDimFighter

(***************************************************************************)
(* parse_event_details_html (src/ufcstats/parse_event_details.py)          *)
(***************************************************************************)

\* str(n) of line 148, for a natural number
RECURSIVE str(_)
str(n) == IF n < 10 THEN <<Digits[n + 1]>> ELSE str(n \div 10) \o <<Digits[(n % 10) + 1]>>

\* a <tr> of the bout table, as far as the loop looks at it: how many <td>
\* it has, whether it holds a fight-details anchor, and how many
\* fighter-details anchors its second cell holds
TrPool ==
    [cells : {9, 10}, bout_anchor : BOOLEAN, fighter_links : {1, 2}]

EventPageIdle == event_page = [phase |-> "idle"]

\* a page without a table, or one with up to MaxTrs rows in its body
EventPageInit ==
    \E has_table \in BOOLEAN, trs \in Tables(TrPool, MaxTrs) :
        /\ ~has_table => trs = <<>>
        /\ event_page = [phase |-> "start", has_table |-> has_table, trs |-> trs,
                         i |-> 1, bout_order |-> 0, bouts |-> <<>>]

\* lines 99-102: no table, no bouts
ParseNoTable ==
    /\ event_page.phase = "start"
    /\ ~event_page.has_table
    /\ event_page' = [event_page EXCEPT !.phase = "returned"]
    /\ UNCHANGED notEventPage

\* line 104: bout_order = 0, then the loop of line 106
ParseTable ==
    /\ event_page.phase = "start"
    /\ event_page.has_table
    /\ event_page' = [event_page EXCEPT !.phase = "loop", !.bout_order = 0]
    /\ UNCHANGED notEventPage

ParseInLoop ==
    /\ event_page.phase = "loop"
    /\ event_page.i <= Len(event_page.trs)

\* lines 107-109: a row with fewer than 10 cells is passed over
SkipFewCells ==
    /\ ParseInLoop
    /\ event_page.trs[event_page.i].cells < 10
    /\ event_page' = [event_page EXCEPT !.i = @ + 1]
    /\ UNCHANGED notEventPage

\* lines 112-115: so is a row without a fight-details anchor
SkipNoBoutAnchor ==
    /\ ParseInLoop
    /\ event_page.trs[event_page.i].cells >= 10
    /\ ~event_page.trs[event_page.i].bout_anchor
    /\ event_page' = [event_page EXCEPT !.i = @ + 1]
    /\ UNCHANGED notEventPage

\* lines 117-126: the counter moves on, then a row with fewer than two
\* fighter anchors is passed over
SkipFewFighters ==
    /\ ParseInLoop
    /\ event_page.trs[event_page.i].cells >= 10
    /\ event_page.trs[event_page.i].bout_anchor
    /\ event_page.trs[event_page.i].fighter_links < 2
    /\ event_page' = [event_page EXCEPT !.i = @ + 1, !.bout_order = @ + 1]
    /\ UNCHANGED notEventPage

\* lines 117-168: the counter moves on and the bout is appended; `tr` is
\* the place of its row in the table
AppendBout ==
    /\ ParseInLoop
    /\ event_page.trs[event_page.i].cells >= 10
    /\ event_page.trs[event_page.i].bout_anchor
    /\ event_page.trs[event_page.i].fighter_links >= 2
    /\ event_page' =
          [event_page EXCEPT
              !.i = @ + 1, !.bout_order = @ + 1,
              !.bouts = Append(@, [tr |-> event_page.i,
                                   bout_order |-> str(event_page.bout_order + 1)])]
    /\ UNCHANGED notEventPage

\* line 170
ParseReturn ==
    /\ event_page.phase = "loop"
    /\ event_page.i > Len(event_page.trs)
    /\ event_page' = [event_page EXCEPT !.phase = "returned"]
    /\ UNCHANGED notEventPage

(***************************************************************************)
(* parse_fighter_details (src/ufcstats/parse_fighter_details.py)           *)
(***************************************************************************)

\* clean_text of the page parsers: " ".join(s.replace("\xa0", " ").split())
clean_text(s) == Strip(CollapseSpaces(ReplaceChar(s, NBSP, " ")))

\* str.find, counted from 1; 0 when p does not occur in s
Find(s, p) ==
    IF Contains(s, p)
    THEN CHOOSE i \in 1..(Len(s) - Len(p) + 1) :
            /\ SubSeq(s, i, i + Len(p) - 1) = p
            /\ \A j \in 1..(i - 1) : SubSeq(s, j, j + Len(p) - 1) # p
    ELSE 0

\* s.split(p, 1)[0] and s.split(p, 1)[1], for p occurring in s
SplitBefore(s, p) == SubSeq(s, 1, Find(s, p) - 1)
SplitAfter(s, p) == Drop(s, Find(s, p) + Len(p) - 1)

L_DOB == <<"D", "O", "B">>

\* the dict `wanted` of lines 37-46, as its labels and its keys
WantedLabels ==
    <<<<"S", "L", "p", "M">>,
      <<"S", "t", "r", ".", " ", "A", "c", "c", ".">>,
      <<"S", "A", "p", "M">>,
      <<"S", "t", "r", ".", " ", "D", "e", "f", ".">>,
      <<"T", "D", " ", "A", "v", "g", ".">>,
      <<"T", "D", " ", "A", "c", "c", ".">>,
      <<"T", "D", " ", "D", "e", "f", ".">>,
      <<"S", "u", "b", ".", " ", "A", "v", "g", ".">>>>
WantedKeys == <<"slpm", "str_acc", "sapm", "str_def", "td_avg", "td_acc", "td_def", "sub_avg">>

\* a slip of line 59: every label is taken for a key
wanted_any(k) ==
    IF \E j \in 1..Len(WantedLabels) : WantedLabels[j] = k
    THEN WantedKeys[CHOOSE j \in 1..Len(WantedLabels) : WantedLabels[j] = k]
    ELSE "other"

\* wanted[k] where k in wanted, "None" elsewhere (line 59)
wanted(k) ==
    IF \E j \in 1..Len(WantedLabels) : WantedLabels[j] = k
    THEN WantedKeys[CHOOSE j \in 1..Len(WantedLabels) : WantedLabels[j] = k]
    ELSE "None"

\* _extract_labeled_value, lines 17-21: the first item that starts with the
\* label and a colon, whatever the case
RECURSIVE extract_labeled_value(_, _)
extract_labeled_value(lis, label) ==
    IF lis = <<>> THEN <<>>
    ELSE LET txt == clean_text(Head(lis))
         IN  IF StartsWith(Lower(txt), Lower(label) \o <<":">>)
             THEN clean_text(SplitAfter(txt, <<":">>))
             ELSE extract_labeled_value(Tail(lis), label)

\* out[key] = v on a dict
Put(out, key, v) == [x \in DOMAIN out \cup {key} |-> IF x = key THEN v ELSE out[x]]

\* lines 54-60: the loop over the list items
RECURSIVE FillWanted(_, _)
FillWanted(out, lis) ==
    IF lis = <<>> THEN out
    ELSE LET txt == clean_text(Head(lis))
             k == clean_text(SplitBefore(txt, <<":">>))
             v == clean_text(SplitAfter(txt, <<":">>))
         IN  IF ~Contains(txt, <<":">>) THEN FillWanted(out, Tail(lis))
             ELSE IF wanted(k) # "None"
             THEN FillWanted(Put(out, wanted(k), v), Tail(lis))
             ELSE FillWanted(out, Tail(lis))

\* parse_fighter_details, lines 31-62
parse_fighter_details(lis) ==
    LET dob_raw == extract_labeled_value(lis, L_DOB)
        out == [x \in {"dob_raw"} \cup {WantedKeys[j] : j \in 1..Len(WantedKeys)} |->
                   IF x = "dob_raw" THEN dob_raw ELSE <<>>]
    IN  FillWanted(out, lis)

LI_dob == <<"D", "O", "B", ":", " ", "J", "u", "l", " ", "1", "3">>
LI_dob_lower == <<" ", "d", "o", "b", ":", NBSP, " ", "x", " ">>
LI_slpm == <<"S", "L", "p", "M", ":", " ", "4", ".", "8", "9">>
LI_str_acc == <<"S", "t", "r", ".", " ", "A", "c", "c", ".", ":", " ", "4", "8", "%">>
LI_td_avg_blank == <<"T", "D", " ", "A", "v", "g", ".", ":">>
LI_height == <<"H", "e", "i", "g", "h", "t", ":", " ", "5", "'", " ", "1", "1">>
LI_record == <<"R", "e", "c", "o", "r", "d">>
LI_sub_avg_spaced == <<"S", "u", "b", ".", " ", "A", "v", "g", ".", " ", ":", " ", "0", ".", "5">>
LI_slpm_lower == <<"s", "l", "p", "m", ":", " ", "1">>

\* the texts of the li.b-list__box-list-item elements a page may hold
LiPool ==
    {LI_dob, LI_dob_lower, LI_slpm, LI_str_acc, LI_td_avg_blank, LI_height, LI_record, LI_sub_avg_spaced, LI_slpm_lower}

FighterPageIdle == fighter_page = [phase |-> "idle"]

FighterPageInit ==
    \E lis \in Tables(LiPool, MaxRows) :
        fighter_page = [phase |-> "fetched", lis |-> lis, out |-> [x \in {} |-> <<>>]]

ParseFighterDetails ==
    /\ fighter_page.phase = "fetched"
    /\ \E r \in {parse_fighter_details(fighter_page.lis)} :
          fighter_page' = [fighter_page EXCEPT !.phase = "parsed", !.out = r]
    /\ UNCHANGED notFighterPage

(***************************************************************************)
(* parse_fight_details (src/ufcstats/parse_fight_details.py)               *)
(***************************************************************************)

L_Method == <<"M", "e", "t", "h", "o", "d", ":">>
L_Round == <<"R", "o", "u", "n", "d", ":">>
L_Time == <<"T", "i", "m", "e", ":">>
L_Time_format == <<"T", "i", "m", "e", " ", "f", "o", "r", "m", "a", "t", ":">>
L_Referee == <<"R", "e", "f", "e", "r", "e", "e", ":">>
L_Details == <<"D", "e", "t", "a", "i", "l", "s", ":">>

\* the list `stops` of line 118
Stops == <<L_Method, L_Round, L_Time, L_Time_format, L_Referee, L_Details>>

\* the row key each label is stored under (lines 124-133)
MetaKeys ==
    <<"method_raw", "round_raw", "time_raw", "time_format_raw", "referee_raw",
      "details_raw">>

\* lines 119-121: `after` is cut at every other known label found in it
RECURSIVE CutAtStops(_, _, _)
CutAtStops(after, label, k) ==
    IF k > Len(Stops) THEN after
    ELSE IF Stops[k] # label /\ Contains(after, Stops[k])
         THEN CutAtStops(Strip(SplitBefore(after, Stops[k])), label, k + 1)
         ELSE CutAtStops(after, label, k + 1)

\* grab, lines 113-122
grab(txt, label) ==
    IF ~Contains(txt, label) THEN <<>>
    ELSE CutAtStops(Strip(SplitAfter(txt, label)), label, 1)

\* lines 109-133 for one paragraph, txt being its _text
ParseMetaText(row, txt) ==
    LET r1 == IF Contains(txt, L_Method)
              THEN [row EXCEPT !["method_raw"] = grab(txt, L_Method),
                               !["round_raw"] = grab(txt, L_Round),
                               !["time_raw"] = grab(txt, L_Time),
                               !["time_format_raw"] = grab(txt, L_Time_format),
                               !["referee_raw"] = grab(txt, L_Referee)]
              ELSE row
    IN  IF Contains(txt, L_Details)
        THEN [r1 EXCEPT !["details_raw"] = Strip(SplitAfter(txt, L_Details))]
        ELSE r1

\* the loop of line 108
RECURSIVE ParseMeta(_, _)
ParseMeta(row, meta_ps) ==
    IF meta_ps = <<>> THEN row
    ELSE ParseMeta(ParseMetaText(row, Head(meta_ps)), Tail(meta_ps))

\* the totals keys in the order of cells[1..9] (lines 158-187), and the
\* breakdown keys in the order of cells[3..8] (lines 209-229)
TotalsKeys ==
    <<<<"kd_1", "kd_2">>, <<"sig_str_1", "sig_str_2">>,
      <<"sig_str_pct_1", "sig_str_pct_2">>, <<"total_str_1", "total_str_2">>,
      <<"td_1", "td_2">>, <<"td_pct_1", "td_pct_2">>, <<"sub_att_1", "sub_att_2">>,
      <<"rev_1", "rev_2">>, <<"ctrl_1", "ctrl_2">>>>
BreakdownKeys ==
    <<<<"head_1", "head_2">>, <<"body_1", "body_2">>, <<"leg_1", "leg_2">>,
      <<"distance_1", "distance_2">>, <<"clinch_1", "clinch_2">>,
      <<"ground_1", "ground_2">>>>

TotalsFields == {TotalsKeys[j][n] : j \in 1..Len(TotalsKeys), n \in {1, 2}}
BreakdownFields == {BreakdownKeys[j][n] : j \in 1..Len(BreakdownKeys), n \in {1, 2}}

\* the cell (counted from the first of the keys) and the line a key is read from
CellOf(keys, x) == CHOOSE j \in 1..Len(keys) : x \in {keys[j][1], keys[j][2]}
LineOf(keys, x) == IF x = keys[CellOf(keys, x)][1] THEN 1 ELSE 2

\* the header labels looked for at lines 142 and 195
TotalsMarks == {<<"S", "i", "g", ".", " ", "s", "t", "r", ".">>, <<"T", "o", "t", "a", "l", " ", "s", "t", "r", ".">>, <<"S", "u", "b", ".", " ", "a", "t", "t">>, <<"C", "t", "r", "l">>}
BreakdownMarks ==
    {<<"H", "e", "a", "d">>,
     <<"B", "o", "d", "y">>,
     <<"L", "e", "g">>,
     <<"D", "i", "s", "t", "a", "n", "c", "e">>,
     <<"C", "l", "i", "n", "c", "h">>,
     <<"G", "r", "o", "u", "n", "d">>}

HasMarks(head, marks) == \A m \in marks : Contains(head, m)

\* two_lines on cell c (counted from 0) of the table at place p of the page:
\* the texts of its first two <p>, "" where the cell has fewer
CellText(p, c, n) == <<Digits[p + 1], ".", Digits[c + 1], ".", Digits[n + 1]>>
two_lines(tables, p, c, n) ==
    IF tables[p].lines >= n THEN CellText(p, c, n) ELSE <<>>

\* line 137: the first table with a width style inside a section of the
\* page (0: None)
SelectWide(tables) ==
    IF \E p \in 1..Len(tables) : tables[p].wide
    THEN CHOOSE p \in 1..Len(tables) :
            tables[p].wide /\ \A q \in 1..(p - 1) : ~tables[q].wide
    ELSE 0

\* the first table whose thead text has all the marks (0: none)
FirstWithMarks(tables, marks) ==
    IF \E p \in 1..Len(tables) : HasMarks(tables[p].thead, marks)
    THEN CHOOSE p \in 1..Len(tables) :
            /\ HasMarks(tables[p].thead, marks)
            /\ \A q \in 1..(p - 1) : ~HasMarks(tables[q].thead, marks)
    ELSE 0

\* lines 137-144: the table selected at line 137 stays unless the loop finds
\* one by its header
totals_table(tables) ==
    IF FirstWithMarks(tables, TotalsMarks) # 0
    THEN FirstWithMarks(tables, TotalsMarks)
    ELSE SelectWide(tables)

\* lines 146-189
ParseTotals(row, tables) ==
    LET p == totals_table(tables)
    IN  IF p # 0 /\ tables[p].cells >= 10
        THEN [x \in DOMAIN row |->
                 IF x \in TotalsFields
                 THEN two_lines(tables, p, CellOf(TotalsKeys, x), LineOf(TotalsKeys, x))
                 ELSE row[x]]
        ELSE row

\* lines 192-231
ParseBreakdown(row, tables) ==
    LET p == FirstWithMarks(tables, BreakdownMarks)
    IN  IF p # 0 /\ tables[p].cells >= 9
        THEN [x \in DOMAIN row |->
                 IF x \in BreakdownFields
                 THEN two_lines(tables, p, CellOf(BreakdownKeys, x) + 2,
                                LineOf(BreakdownKeys, x))
                 ELSE row[x]]
        ELSE row

\* lines 28-78: every field "" (the fields of lines 29-45 that come from the
\* arguments, the title and the fighter blocks are left out)
EmptyRow ==
    [x \in {MetaKeys[j] : j \in 1..Len(MetaKeys)} \cup TotalsFields \cup BreakdownFields |->
        <<>>]

\* parse_fight_details
parse_fight_details(meta_ps, tables) ==
    ParseBreakdown(ParseTotals(ParseMeta(EmptyRow, meta_ps), tables), tables)

H_totals == <<"F", "i", "g", "h", "t", "e", "r", " ", "K", "D", " ", "S", "i", "g", ".", " ", "s", "t", "r", ".", " ", "S", "i", "g", ".", " ", "s", "t", "r", ".", " ", "%", " ", "T", "o", "t", "a", "l", " ", "s", "t", "r", ".", " ", "T", "d", " ", "T", "d", " ", "%", " ", "S", "u", "b", ".", " ", "a", "t", "t", " ", "R", "e", "v", ".", " ", "C", "t", "r", "l">>
H_breakdown == <<"F", "i", "g", "h", "t", "e", "r", " ", "S", "i", "g", ".", " ", "s", "t", "r", " ", "S", "i", "g", ".", " ", "s", "t", "r", ".", " ", "%", " ", "H", "e", "a", "d", " ", "B", "o", "d", "y", " ", "L", "e", "g", " ", "D", "i", "s", "t", "a", "n", "c", "e", " ", "C", "l", "i", "n", "c", "h", " ", "G", "r", "o", "u", "n", "d">>
H_round == <<"R", "o", "u", "n", "d", " ", "1", " ", "F", "i", "g", "h", "t", "e", "r", " ", "K", "D", " ", "S", "i", "g", ".", " ", "s", "t", "r", ".", " ", "T", "o", "t", "a", "l", " ", "s", "t", "r", ".">>
H_head_body == <<"H", "e", "a", "d", " ", "B", "o", "d", "y", " ", "L", "e", "g">>

Table(thead, wide, cells, lines) ==
    [thead |-> thead, wide |-> wide, cells |-> cells, lines |-> lines]

\* the tables a page is made of: the two the parser looks for, well formed
\* or short, and others
TablePool ==
    {Table(H_totals, TRUE, 10, 2), Table(H_totals, FALSE, 9, 2),
     Table(H_breakdown, TRUE, 9, 2), Table(H_breakdown, FALSE, 10, 1),
     Table(H_round, TRUE, 10, 2), Table(H_head_body, FALSE, 9, 2),
     Table(<<>>, FALSE, 0, 0)}

V_KO == <<"K", "O">>
V_2 == <<"2">>
V_4_46 == <<"4", ":", "4", "6">>
V_3_Rnd == <<"3", " ", "R", "n", "d", " ", "(", "5", "-", "5", "-", "5", ")">>
V_Herb == <<"H", "e", "r", "b", " ", "D", "e", "a", "n">>
V_Punch == <<"P", "u", "n", "c", "h">>

\* the value a label is followed by when it has one
MetaValues == <<V_KO, V_2, V_4_46, V_3_Rnd, V_Herb, V_Punch>>

Labelled(j, filled) == [label |-> j, value |-> IF filled THEN MetaValues[j] ELSE <<>>]

\* the text of a paragraph that shows the labelled values one after the other
RECURSIVE MetaText(_)
MetaText(items) ==
    IF items = <<>> THEN <<>>
    ELSE LET one == Stops[Head(items).label]
                    \o (IF Head(items).value = <<>> THEN <<>>
                        ELSE <<" ">> \o Head(items).value)
         IN  IF Len(items) = 1 THEN one ELSE one \o <<" ">> \o MetaText(Tail(items))

\* the paragraphs of at most n distinct labels
RECURSIVE MetaItems(_)
MetaItems(n) ==
    IF n = 0 THEN {<<>>}
    ELSE LET shorter == MetaItems(n - 1)
         IN  shorter \cup
               {Append(s, Labelled(j, filled)) :
                   s \in {x \in shorter : Len(x) = n - 1},
                   j \in 1..Len(Stops), filled \in BOOLEAN}

DistinctLabels(items) ==
    \A a, b \in 1..Len(items) : a # b => items[a].label # items[b].label

\* the page as the site writes it: the labels of a fight in one paragraph,
\* the details in the next
SiteMeta ==
    <<[j \in 1..5 |-> Labelled(j, TRUE)], <<Labelled(6, TRUE)>>>>
SiteTables == <<Table(H_totals, TRUE, 10, 2), Table(H_breakdown, TRUE, 9, 2)>>

FightPageIdle == fight_page = [phase |-> "idle"]

\* a page: one meta paragraph of any labels over the site's tables, or any
\* tables under the site's paragraphs; `labelled` is what the paragraphs show
FightPageInit ==
    \E items \in MetaItems(MaxLabels), tables \in Tables(TablePool, MaxTables),
       own_meta \in BOOLEAN :
        /\ DistinctLabels(items)
        /\ IF own_meta THEN tables = SiteTables ELSE items = <<>>
        /\ LET labelled == IF own_meta THEN <<items>> ELSE SiteMeta
           IN  fight_page = [phase |-> "fetched", labelled |-> labelled,
                             meta_ps |-> [i \in 1..Len(labelled) |-> MetaText(labelled[i])],
                             tables |-> tables, row |-> EmptyRow]

ParseFightDetails ==
    /\ fight_page.phase = "fetched"
    /\ \E r \in {parse_fight_details(fight_page.meta_ps, fight_page.tables)} :
          fight_page' = [fight_page EXCEPT !.phase = "parsed", !.row = r]
    /\ UNCHANGED notFightPage

(***************************************************************************)
(* scripts/run_pipeline_raw.py                                             *)
(***************************************************************************)

\* the child processes of lines 41-98, in the order main starts them
Stages ==
    <<"ingest_event_directory", "ingest_fighter_directory", "ingest_event_details",
      "ingest_fighter_details", "ingest_fight_details">>

\* the header ingest_event_details writes (its lines 129-155)
EventDetailsFieldnames ==
    {"snapshot", "event_url", "event_name", "event_date_raw", "event_location_raw",
     "bout_url", "bout_order", "fighter_1_name", "fighter_1_url", "fighter_1_result",
     "fighter_2_name", "fighter_2_url", "fighter_2_result", "kd_1", "str_1", "td_1",
     "sub_1", "kd_2", "str_2", "td_2", "sub_2", "weight_class_raw", "method_raw",
     "round_raw", "time_raw"}

\* the column ingest_fight_details takes its seeds from (its line 78)
SeedColumn == "fight_url"

\* the bout URLs the event pages of one day hold
PipelineBouts == {F_a_http, F_a_www, F_b_www}

NoCsv == [exists |-> FALSE, header |-> {}, bout_urls |-> <<>>]

PipelineIdle == pipeline = [pc |-> "idle"]

\* main up to line 38: nothing started; `bouts` is what the site serves
PipelineInit ==
    \E bouts \in Tables(PipelineBouts, MaxRows), resume \in BOOLEAN :
        pipeline = [pc |-> "next", started |-> <<>>, exits |-> <<>>,
                    message |-> FALSE, bouts |-> bouts, resume |-> resume,
                    event_details_csv |-> NoCsv, seeds |-> <<>>]

\* a slip of line 20: subprocess.run(args) without check=True
run_unchecked(ok) == "next"

\* _run, line 20: subprocess.run(args, check=True) returns when the child
\* exits with 0 and raises CalledProcessError otherwise
run(ok) == IF ok THEN "next" ELSE "raised"

\* how a child can exit: any stage can fail (the site is unreachable);
\* ingest_event_details also fails when it parsed no bout (its line 125),
\* ingest_fight_details when its input lacks the seed column (its line 78)
StageSucceeds(k) ==
    IF k = 3 /\ pipeline.bouts = <<>> THEN {FALSE}
    ELSE IF k = 5 /\ SeedColumn \notin pipeline.event_details_csv.header THEN {FALSE}
    ELSE BOOLEAN

\* lines 41, 44, 47, 62, 98: _run starts the next child and waits for it
RunStage ==
    /\ pipeline.pc = "next"
    /\ Len(pipeline.started) < Len(Stages)
    /\ pipeline' = [pipeline EXCEPT
                       !.pc = "child",
                       !.started = Append(@, Stages[Len(pipeline.started) + 1])]
    /\ UNCHANGED notPipeline

\* the child exits; a successful ingest_event_details has written its
\* snapshot, a successful ingest_fight_details has read its seed column
ChildExits ==
    /\ pipeline.pc = "child"
    /\ \E ok \in StageSucceeds(Len(pipeline.started)) :
          pipeline' = [pipeline EXCEPT
              !.pc = run(ok),
              !.exits = Append(@, ok),
              !.event_details_csv =
                  IF ok /\ Len(pipeline.started) = 3
                  THEN [exists |-> TRUE, header |-> EventDetailsFieldnames,
                        bout_urls |-> DedupKeepOrder(pipeline.bouts)]
                  ELSE @,
              !.seeds =
                  IF ok /\ Len(pipeline.started) = 5
                  THEN DedupKeepOrder(pipeline.event_details_csv.bout_urls)
                  ELSE @]
    /\ UNCHANGED notPipeline

\* lines 101-107: the completion message and return 0, or the exception of
\* _run ends main
MainEnds ==
    /\ \/ pipeline.pc = "raised"
       \/ pipeline.pc = "next" /\ Len(pipeline.started) = Len(Stages)
    /\ pipeline' = [pipeline EXCEPT !.pc = "exited",
                                    !.message = (pipeline.pc = "next")]
    /\ UNCHANGED notPipeline

(***************************************************************************)
(* Specifications                                                          *)
(***************************************************************************)
InitFetch == FetchInit /\ CanonIdle /\ DimEventIdle /\ FightIdle /\ DetailsIdle /\ DirectoryIdle /\ CoerceIdle /\ FactBoutIdle /\ DimFighterIdle /\ EventPageIdle /\ PipelineIdle /\ FighterPageIdle /\ FightPageIdle
NextFetch == FetchAttempt \/ FetchExhausted
SpecFetch == InitFetch /\ [][NextFetch]_vars
\* the interpreter keeps running the loop: a call that can step does step
SpecFetchFair == SpecFetch /\ WF_vars(NextFetch)

InitCanon == CanonInit /\ FetchIdle /\ DimEventIdle /\ FightIdle /\ DetailsIdle /\ DirectoryIdle /\ CoerceIdle /\ FactBoutIdle /\ DimFighterIdle /\ EventPageIdle /\ PipelineIdle /\ FighterPageIdle /\ FightPageIdle
NextCanon == CanonOnce \/ CanonTwice
SpecCanon == InitCanon /\ [][NextCanon]_vars

InitDimEvent == DimEventInit /\ FetchIdle /\ CanonIdle /\ FightIdle /\ DetailsIdle /\ DirectoryIdle /\ CoerceIdle /\ FactBoutIdle /\ DimFighterIdle /\ EventPageIdle /\ PipelineIdle /\ FighterPageIdle /\ FightPageIdle
NextDimEvent == BuildDimEvent
SpecDimEvent == InitDimEvent /\ [][NextDimEvent]_vars

\* one of the three per-entity drivers is run
InitIngest ==
    /\ FetchIdle /\ CanonIdle /\ DimEventIdle /\ DirectoryIdle /\ CoerceIdle /\ FactBoutIdle /\ DimFighterIdle /\ EventPageIdle /\ PipelineIdle /\ FighterPageIdle /\ FightPageIdle
    /\ \/ FightInit /\ DetailsIdle
       \/ FightIdle /\ DetailsInit
NextIngest ==
    \/ FightStart \/ FightSkipDone \/ FightFetchFail \/ FightParseRaise
    \/ FightWriteRow \/ FightFlush \/ FightFinish \/ FightKill
    \/ DetailsStart
    \/ EventFetchFail \/ EventParseRaise \/ EventParsed \/ EventFinish
    \/ FighterSkipSeen \/ FighterFetchFail \/ FighterParseRaise
    \/ FighterParsed \/ FighterFinish
SpecIngest == InitIngest /\ [][NextIngest]_vars

InitDirectory ==
    /\ DirectoryInit
    /\ FetchIdle /\ CanonIdle /\ DimEventIdle /\ FightIdle /\ DetailsIdle /\ CoerceIdle /\ FactBoutIdle /\ DimFighterIdle /\ EventPageIdle /\ PipelineIdle /\ FighterPageIdle /\ FightPageIdle
NextDirectory ==
    \/ DirectoryStart \/ EventDirFetchFail \/ EventDirParsed
    \/ FighterDirFetchFail \/ FighterDirPage \/ FighterDirFinish
SpecDirectory == InitDirectory /\ [][NextDirectory]_vars

InitCoerce ==
    /\ CoerceInit
    /\ FetchIdle /\ CanonIdle /\ DimEventIdle /\ FightIdle /\ DetailsIdle /\ DirectoryIdle /\ FactBoutIdle /\ DimFighterIdle /\ EventPageIdle /\ PipelineIdle /\ FighterPageIdle /\ FightPageIdle
NextCoerce == CoerceColumn
SpecCoerce == InitCoerce /\ [][NextCoerce]_vars

InitFactBout ==
    /\ FactBoutInit
    /\ FetchIdle /\ CanonIdle /\ DimEventIdle /\ FightIdle /\ DetailsIdle /\ DirectoryIdle /\ CoerceIdle /\ DimFighterIdle /\ EventPageIdle /\ PipelineIdle /\ FighterPageIdle /\ FightPageIdle
NextFactBout == BuildFactBout
SpecFactBout == InitFactBout /\ [][NextFactBout]_vars

InitDimFighter ==
    /\ DimFighterInit
    /\ FetchIdle /\ CanonIdle /\ DimEventIdle /\ FightIdle /\ DetailsIdle /\ DirectoryIdle /\ CoerceIdle /\ FactBoutIdle /\ EventPageIdle /\ PipelineIdle /\ FighterPageIdle /\ FightPageIdle
NextDimFighter == BuildDimFighter
SpecDimFighter == InitDimFighter /\ [][NextDimFighter]_vars

InitEventPage ==
    /\ EventPageInit
    /\ FetchIdle /\ CanonIdle /\ DimEventIdle /\ FightIdle /\ DetailsIdle /\ DirectoryIdle /\ CoerceIdle /\ FactBoutIdle /\ DimFighterIdle /\ PipelineIdle /\ FighterPageIdle /\ FightPageIdle
NextEventPage ==
    \/ ParseNoTable \/ ParseTable \/ SkipFewCells \/ SkipNoBoutAnchor
    \/ SkipFewFighters \/ AppendBout \/ ParseReturn
SpecEventPage == InitEventPage /\ [][NextEventPage]_vars

InitPipeline ==
    /\ PipelineInit
    /\ FetchIdle /\ CanonIdle /\ DimEventIdle /\ FightIdle /\ DetailsIdle /\ DirectoryIdle /\ CoerceIdle /\ FactBoutIdle /\ DimFighterIdle /\ EventPageIdle /\ FighterPageIdle /\ FightPageIdle
NextPipeline == RunStage \/ ChildExits \/ MainEnds
SpecPipeline == InitPipeline /\ [][NextPipeline]_vars

InitFighterPage ==
    /\ FighterPageInit
    /\ FetchIdle /\ CanonIdle /\ DimEventIdle /\ FightIdle /\ DetailsIdle /\ DirectoryIdle /\ CoerceIdle /\ FactBoutIdle /\ DimFighterIdle /\ EventPageIdle /\ PipelineIdle /\ FightPageIdle
NextFighterPage == ParseFighterDetails
SpecFighterPage == InitFighterPage /\ [][NextFighterPage]_vars

InitFightPage ==
    /\ FightPageInit
    /\ FetchIdle /\ CanonIdle /\ DimEventIdle /\ FightIdle /\ DetailsIdle /\ DirectoryIdle /\ CoerceIdle /\ FactBoutIdle /\ DimFighterIdle /\ EventPageIdle /\ PipelineIdle /\ FighterPageIdle
NextFightPage == ParseFightDetails
SpecFightPage == InitFightPage /\ [][NextFightPage]_vars

(***************************************************************************)
(* Claims                                                                  *)
(***************************************************************************)
Failed(r) == r.kind # "ok"

\* C7: fetch_html issues at most `retries` requests, returns the body of the
\* first successful response and stops there, raises exactly when every one
\* of the `retries` attempts failed, and always ends in one of the two ways.
C7_Safe ==
    /\ fetch.requests = Len(fetch.seen)
    /\ fetch.requests <= fetch.retries
    /\ \A k \in 1..(Len(fetch.seen) - 1) : Failed(fetch.seen[k])
    /\ fetch.status = "returned" =>
          /\ fetch.seen # <<>>
          /\ ~Failed(fetch.seen[Len(fetch.seen)])
          /\ fetch.text = fetch.seen[Len(fetch.seen)].text
    /\ fetch.status = "raised" =>
          /\ fetch.requests = fetch.retries
          /\ \A k \in 1..Len(fetch.seen) : Failed(fetch.seen[k])
    /\ fetch.status = "running" =>
          \A k \in 1..Len(fetch.seen) : Failed(fetch.seen[k])

C7_FetchTerminates == []C7_Safe /\ <>(fetch.status # "running")

C7_Witness ==
    /\ fetch.status = "returned"
    /\ fetch.retries = 3
    /\ fetch.requests = 2
    /\ fetch.seen[1].kind = "conn_error"

\* C8: canonicalizing a canonicalized URL changes nothing, for the builder
\* canonicalizer and for normalize_ufcstats_url with a fixed base.
C8_Idempotent == canon.phase = "twice" => canon.out2 = canon.out1

C8_Witness ==
    /\ canon.phase = "twice"
    /\ canon.which = "builder"
    /\ canon.u = P_https_www \o S_event_abc \o <<"/", "/">>
    /\ canon.out1 = P_http_bare \o S_event_abc

OutRows == IF dim_event.phase = "written" THEN dim_event.out ELSE <<>>

\* C9: every event_url written by the dim_event builder is in canonical form
\* (http://ufcstats.com host, no trailing slash), and no two rows written
\* carry the same canonical URL.
C9_CanonicalEventUrl ==
    /\ \A i \in 1..Len(OutRows) :
          /\ StartsWith(OutRows[i].event_url, P_http_bare \o <<"/">>)
          /\ OutRows[i].event_url[Len(OutRows[i].event_url)] # "/"
    /\ \A i, j \in 1..Len(OutRows) :
          normalize_ufcstats_url_series(OutRows[i].event_url)
            = normalize_ufcstats_url_series(OutRows[j].event_url) => i = j

\* C10: a row written by the dim_event builder has is_ufc true exactly when
\* its uppercased name starts with "UFC " or contains "UFC FIGHT NIGHT".
C10_Expected(name_u) ==
    \/ Len(name_u) >= 4 /\ SubSeq(name_u, 1, 4) = <<"U", "F", "C", " ">>
    \/ \E k \in 1..(Len(name_u) - 14) :
          SubSeq(name_u, k, k + 14) = S_UFC_FIGHT_NIGHT

C10_TrueNames == {N_ufc300, N_fight_night, N_nbsp, N_lower, N_spaced}
C10_FalseNames == {N_bellator, N_bare_ufc, N_padded_ufc, N_ufcx, N_road}

C10_IsUfc ==
    /\ \A k \in 1..Len(OutRows) :
          OutRows[k].is_ufc = C10_Expected(Upper(OutRows[k].event_name))
    /\ \A k \in 1..Len(OutRows) :
          \A i \in 1..Len(dim_event.rows) :
             clean_text_series(dim_event.rows[i].event_name) = OutRows[k].event_name
             => /\ dim_event.rows[i].event_name \in C10_TrueNames
                     => OutRows[k].is_ufc
                /\ dim_event.rows[i].event_name \in C10_FalseNames
                     => ~OutRows[k].is_ufc

C10_Witness ==
    /\ dim_event.phase = "written"
    /\ Len(dim_event.out) = 2
    /\ dim_event.rows[1].event_name = N_spaced
    /\ dim_event.out[1].is_ufc
    /\ dim_event.rows[2].event_name = N_bellator
    /\ ~dim_event.out[2].is_ufc

FightRowUrls ==
    [k \in 1..Len(fight_out.lines) |->
        IF fight_out.lines[k].kind = "row" THEN fight_out.lines[k].fight_url
        ELSE <<>>]

\* C1: with --resume on every run after the first, no fight_url occurs in
\* two rows of the output file, whatever runs were killed in between.
C1_NoDuplicateFightUrl ==
    fight.fresh =>
        \A i, j \in 1..Len(FightRowUrls) :
            (FightRowUrls[i] # <<>> /\ FightRowUrls[i] = FightRowUrls[j]) => i = j

\* C2: a --resume run that finds no output file, or one that is not a CSV
\* with a fight_url header, does not fail on it: its resume set is empty and
\* it skips no seed.
C2_Unreadable(file) ==
    \/ ~file.exists
    \/ file.lines = <<>>
    \/ file.lines # <<>> /\ file.lines[1] # HeaderLine
    \/ \E k \in 1..Len(file.lines) : file.lines[k] = JunkLine

C2_ResumeTolerant ==
    (fight.status # "none" /\ fight.resume /\ C2_Unreadable(fight.out0)) =>
        /\ fight.why # "resume"
        /\ fight.done = {}
        /\ fight.skipped = {}
        /\ fight.status = "running" => Len(fight.fetched) >= fight.i - 1
        /\ fight.status = "success" => Len(fight.fetched) = Len(fight.fight_urls)

C2_Witness ==
    /\ fight.resume
    /\ fight.out0 = File(<<JunkLine>>)
    /\ fight.status = "success"
    /\ Len(fight.fetched) = 2
    /\ fight.processed = 1

\* C3: the output only grows: at every point of a run the file is what the
\* run found followed by the lines the run flushed, in order, and no written
\* line is still unflushed when the next seed is fetched.
C3_AppendOnly ==
    /\ fight.status # "none" =>
          IF fight_out.exists
          THEN fight_out.lines = fight.out0.lines \o fight.flushed
          ELSE ~fight.out0.exists /\ fight.flushed = <<>>
    /\ fight.pc = "loop" => fight.buf = <<>>
    /\ Len(SelectSeq(fight.flushed, LAMBDA l : l.kind = "row")) = fight.processed

C3_Witness ==
    /\ fight.runs = 2
    /\ ~fight.resume
    /\ fight.status = "killed"
    /\ Len(fight.out0.lines) = 3
    /\ Len(fight.flushed) = 1

\* C4: no per-entity driver reports success for a run that processed at
\* least one seed and produced no record.
C4_FatalOnEmptyRun ==
    /\ details.status = "success" =>
          ~(details.visited # {} /\ details.records = <<>>)
    /\ fight.status = "success" =>
          ~(fight.fetched # <<>> /\ fight.processed = 0)

\* C5: in every per-entity driver a seed whose fetch or parse failed is
\* logged with its URL, yields no record, and does not end the run.
C5_SeedFailureIsSkipped ==
    /\ details.why \notin {"fetch", "parse"}
    /\ \A k \in details.failed :
          /\ \E l \in details.logged :
                l.url = normalize_ufcstats_url(Strip(details.seeds[k]), details.base)
          /\ \A n \in 1..Len(details.records) : details.records[n].seed # k
    /\ details.pc = "loop" => details.visited \cup {k \in 1..(details.i - 1) :
            normalize_ufcstats_url(Strip(details.seeds[k]), details.base)
                \in details.seen} = 1..(details.i - 1)
    /\ fight.why \notin {"fetch", "parse"}
    /\ fight.failed \subseteq {l.url : l \in fight.logged}

\* C6 as stated: a directory run in which a page fetch failed or a page
\* parsed to no row ends in an error and leaves the output path untouched.
C6_AbortsOnAnyEmptyPage ==
    (directory.pc = "ended" /\ (directory.fetch_failed # {} \/ directory.empty # {}))
        => directory.status = "error" /\ directory.outfile = directory.out0

\* C6 as amended: a directory run ends in an error and leaves the output
\* path untouched when a page fetch failed, when the event directory page
\* parsed to no row, or when every fighter directory page parsed to no row.
C6_AbortsOnFetchOrAllEmpty ==
    /\ directory.pc # "ended" => directory.outfile = directory.out0
    /\ (/\ directory.pc = "ended"
        /\ \/ directory.fetch_failed # {}
           \/ directory.kind = "event" /\ directory.empty # {}
           \/ directory.kind = "fighter"
                /\ directory.empty = 1..Len(directory.chars))
        => directory.status = "error" /\ directory.outfile = directory.out0

C6_Witness ==
    /\ directory.kind = "fighter"
    /\ directory.pc = "ended"
    /\ Len(directory.chars) = 2
    /\ directory.empty = {1, 2}
    /\ directory.status = "error"
    /\ directory.out0 = OldSnapshot
    /\ directory.outfile = OldSnapshot

\* the k-th smallest element of a set of indices
NthIndex(I, k) == CHOOSE i \in I : Cardinality({j \in I : j <= i}) = k

\* the input rows of the dim_event builder with a name and a URL after cleaning
C11_Valid ==
    {i \in 1..Len(dim_event.rows) :
        /\ clean_text_series(dim_event.rows[i].event_name) # <<>>
        /\ clean_text_series(dim_event.rows[i].event_url) # <<>>}

\* the first valid row of each cleaned URL
C11_First ==
    {i \in C11_Valid : \A j \in C11_Valid :
        j < i => clean_text_series(dim_event.rows[j].event_url)
                    # clean_text_series(dim_event.rows[i].event_url)}

\* C11: the dim_event output is, in input order, the first valid input row of
\* each distinct cleaned event_url, with that row's cleaned values; a row with
\* an empty name or URL is never written and hides no later valid row.
C11_FirstValidRowPerUrl ==
    dim_event.phase = "written" =>
        /\ Len(dim_event.out) = Cardinality(C11_First)
        /\ \A k \in 1..Len(dim_event.out) :
              LET r == dim_event.rows[NthIndex(C11_First, k)]
                  o == dim_event.out[k]
              IN  /\ o.event_url = clean_text_series(r.event_url)
                  /\ o.event_name = clean_text_series(r.event_name)
                  /\ o.event_date_raw = clean_text_series(r.event_date_raw)
                  /\ o.event_location_raw = clean_text_series(r.event_location_raw)
                  /\ o.event_url # <<>> /\ o.event_name # <<>>

C11_Witness ==
    /\ dim_event.phase = "written"
    /\ Len(dim_event.rows) = 2
    /\ dim_event.rows[1] = EventDirectoryRow(U_abc_padded, N_empty)
    /\ dim_event.rows[2] = EventDirectoryRow(U_abc_http_bare, N_ufc300)
    /\ Len(dim_event.out) = 1
    /\ dim_event.out[1].event_name = N_ufc300

\* what the claim expects of one cell: null for blank and "--", the integer
\* for a base-10 integer, null for every other text
C12_Expected(cell) ==
    LET c == clean_text_series(cell)
        body == IF c # <<>> /\ c[1] \in {"-", "+"} THEN Drop(c, 1) ELSE c
    IN  IF c = <<>> \/ c = S_dashes THEN NA
        ELSE IF body # <<>> /\ AllDigits(body)
        THEN [kind |-> "int",
              value |-> (IF c[1] = "-" THEN -1 ELSE 1) * DigitsValue(body)]
        ELSE NA

\* C12: typing a numeric column never raises; blank and "--" become null, a
\* base-10 integer becomes that integer, every other string becomes null.
C12_CoercionIsTotal ==
    /\ coerce.phase # "raised"
    /\ coerce.phase = "typed" =>
          \A k \in 1..Len(coerce.column) :
             coerce.values[k] = C12_Expected(coerce.column[k])

\* the first input row of each non-empty cleaned bout_url
C13_First ==
    {i \in 1..Len(fact_bout.raw) :
        /\ clean_text_series(fact_bout.raw[i].bout_url) # <<>>
        /\ \A j \in 1..(i - 1) :
              clean_text_series(fact_bout.raw[j].bout_url)
                 # clean_text_series(fact_bout.raw[i].bout_url)}

C14_HasWinner ==
    fact_bout.phase = "written" =>
        \A k \in 1..Len(fact_bout.out) :
           LET o == fact_bout.out[k]
               r1 == Lower(Strip(CollapseSpaces(ReplaceChar(o.fighter_1_result, NBSP, " "))))
               r2 == Lower(Strip(CollapseSpaces(ReplaceChar(o.fighter_2_result, NBSP, " "))))
           IN  /\ o.has_winner = (r1 = <<"w", "i", "n">> \/ r2 = <<"w", "i", "n">>)
               /\ (o.fighter_1_result = T_Win /\ o.fighter_2_result = <<>>) => o.has_winner
               /\ (o.fighter_1_result \in {T_winner, T_loss, T_draw, <<>>}
                     /\ o.fighter_2_result \in {T_nc, <<>>}) => ~o.has_winner

C14_Witness ==
    /\ fact_bout.phase = "written"
    /\ Len(fact_bout.out) = 2
    /\ fact_bout.out[1].fighter_1_result = T_loss
    /\ fact_bout.out[1].fighter_2_result = T_WIN_padded
    /\ fact_bout.out[1].has_winner
    /\ fact_bout.out[2].fighter_1_result = T_winner
    /\ ~fact_bout.out[2].has_winner

\* the is_ufc values dim_event holds for an event URL
C15_Inherited(event_url) ==
    {fact_bout.dim.rows[i].is_ufc : i \in
        {j \in 1..Len(fact_bout.dim.rows) :
            clean_text_series(fact_bout.dim.rows[j].event_url) = event_url}}

\* C15: with a dim_event table and an event_name column, a fact_bout row
\* inherits the non-blank is_ufc of its event in dim_event; a row whose event
\* is not in dim_event, or is there with a blank or "None" is_ufc, gets the
\* value inferred from its event name; no row is left without is_ufc.
C15_IsUfcInheritedOrInferred ==
    (fact_bout.phase = "written" /\ fact_bout.dim.given /\ fact_bout.has_name) =>
        \A k \in 1..Len(fact_bout.out) :
           LET o == fact_bout.out[k]
               got == C15_Inherited(o.event_url)
               inferred == BoolStr(C10_Expected(Upper(clean_text_series(
                               fact_bout.raw[o.src].event_name))))
           IN  /\ o.is_ufc # NaN
               /\ got = {} => o.is_ufc = inferred
               /\ (got # {} /\ got \subseteq {"", "None"}) => o.is_ufc = inferred
               /\ (got # {} /\ got \cap {"", "None", "nan"} = {}) => o.is_ufc \in got

\* the fact_bout half of C16: a raw table lacking a required column
C16_FactBout ==
    (fact_bout.phase \in {"error", "written"} /\ fact_bout.missing # {}) =>
        /\ fact_bout.phase = "error" /\ fact_bout.why = "schema"
        /\ fact_bout.outfile = fact_bout.out0

\* the dim_fighter half of C16: an input lacking a required column
C16_DimFighter ==
    (dim_fighter.phase \in {"error", "written"} /\ dim_fighter.schema # GoodSchema) =>
        /\ dim_fighter.phase = "error" /\ dim_fighter.why = "schema"
        /\ dim_fighter.touched = {}
        /\ dim_fighter.outfile = dim_fighter.out0

\* C16: a builder given an input without a required column fails before it
\* has transformed any row, and leaves the output path as it was.
C16_SchemaFailsFast == C16_FactBout /\ C16_DimFighter

\* the canonical fighter URLs on either side of a bout of the fact_bout input
C17_InBouts ==
    {normalize_ufcstats_url_series(dim_fighter.bouts[k].fighter_1_url) :
        k \in 1..Len(dim_fighter.bouts)}
    \cup {normalize_ufcstats_url_series(dim_fighter.bouts[k].fighter_2_url) :
        k \in 1..Len(dim_fighter.bouts)}

\* C17: a fighter of the directory who is on neither side of any fact_bout
\* row is written with is_ufc_fighter = 0 and is_female = 0.
C17_NoBoutsMeansZeroFlags ==
    dim_fighter.phase = "written" =>
        \A k \in 1..Len(dim_fighter.out) :
           dim_fighter.out[k].fighter_url \notin C17_InBouts =>
              /\ dim_fighter.out[k].is_ufc_fighter = 0
              /\ dim_fighter.out[k].is_female = 0

C17_Witness ==
    /\ dim_fighter.phase = "written"
    /\ Len(dim_fighter.bouts) = 1
    /\ dim_fighter.bouts[1].fighter_1_url = X_http
    /\ Len(dim_fighter.out) = 2
    /\ dim_fighter.out[1].fighter_url = X_http
    /\ dim_fighter.out[2].fighter_url = Y_http
    /\ dim_fighter.out[2].is_ufc_fighter = 0
    /\ dim_fighter.out[2].is_female = 0

\* the sides of the fact_bout input taken by the fighter of canonical URL u:
\* pairs of a bout and a side
C18_Sides(u) ==
    {p \in (1..Len(dim_fighter.bouts)) \X {1, 2} :
        normalize_ufcstats_url_series(
            IF p[2] = 1 THEN dim_fighter.bouts[p[1]].fighter_1_url
            ELSE dim_fighter.bouts[p[1]].fighter_2_url) = u}

C18_Women(u) ==
    {p \in C18_Sides(u) :
        Contains(Lower(dim_fighter.bouts[p[1]].weight_class_raw), S_women)}

\* C18: a fighter with at least one participation and unequal counts has
\* is_female equal to the majority of the women-division flag over all of
\* the fighter's participations, on either side.
C18_IsFemaleIsMajority ==
    dim_fighter.phase = "written" =>
        \A k \in 1..Len(dim_fighter.out) :
           LET u == dim_fighter.out[k].fighter_url
               w == Cardinality(C18_Women(u))
               m == Cardinality(C18_Sides(u)) - w
           IN  (w + m >= 1 /\ w # m) =>
                   dim_fighter.out[k].is_female = (IF w > m THEN 1 ELSE 0)

C18_Witness ==
    /\ dim_fighter.phase = "written"
    /\ Len(dim_fighter.bouts) = 3
    /\ \E k \in 1..Len(dim_fighter.out) :
          /\ dim_fighter.out[k].fighter_url = X_http
          /\ Cardinality(C18_Sides(X_http)) = 3
          /\ Cardinality(C18_Women(X_http)) = 2
          /\ \E p \in C18_Women(X_http) : p[2] = 2
          /\ dim_fighter.out[k].is_female = 1

\* the canonical keys of the fighter directory read
C19_Keys ==
    {clean_text_series(normalize_ufcstats_url_series(dim_fighter.dir[k].fighter_url)) :
        k \in 1..Len(dim_fighter.dir)} \ {<<>>}

\* C19: dim_fighter has exactly one row per distinct non-empty canonical
\* fighter_url of the directory; the joins add no row and drop none, and a
\* fighter known only to the details or to fact_bout gets no row.
C19_OneRowPerDirectoryFighter ==
    dim_fighter.phase = "written" =>
        /\ {dim_fighter.out[k].fighter_url : k \in 1..Len(dim_fighter.out)} = C19_Keys
        /\ Len(dim_fighter.out) = Cardinality(C19_Keys)

C19_Witness ==
    /\ dim_fighter.phase = "written"
    /\ Len(dim_fighter.dir) = 2
    /\ dim_fighter.dir[1].fighter_url = X_www_slash
    /\ dim_fighter.dir[2].fighter_url = X_http
    /\ Len(dim_fighter.det) = 2
    /\ dim_fighter.det[1].fighter_url = X_www_slash
    /\ dim_fighter.det[2].fighter_url = X_http
    /\ Len(dim_fighter.out) = 1
    /\ dim_fighter.out[1].fighter_url = X_http

\* C20: the bout_order values of the bouts parse_event_details_html returns
\* are exactly 1..n in document order, whichever rows were passed over.
C20_BoutOrderIsDense ==
    event_page.phase = "returned" =>
        \A k \in 1..Len(event_page.bouts) :
           /\ AllDigits(event_page.bouts[k].bout_order)
           /\ DigitsValue(event_page.bouts[k].bout_order) = k

C25_Key(url) == clean_text_series(normalize_ufcstats_url_series(url))

\* the first row of a table read whose canonical key is u (0: there is none)
C25_FirstRow(table, u) ==
    LET I == {i \in 1..Len(table) : C25_Key(table[i].fighter_url) = u}
    IN  IF I = {} THEN 0 ELSE CHOOSE i \in I : \A j \in I : i <= j

\* the first_name the backfill rule gives the fighter of key u
C25_Expected(u) ==
    LET d == C25_FirstRow(dim_fighter.dir, u)
        e == C25_FirstRow(dim_fighter.det, u)
        own == clean_text_series(dim_fighter.dir[d].first_name)
    IN  IF own # <<>> THEN own
        ELSE IF e = 0 THEN <<>>
        ELSE clean_text_series(dim_fighter.det[e].first_name)

C25_Rule ==
    \A k \in 1..Len(dim_fighter.out) :
       /\ dim_fighter.out[k].first_name = C25_Expected(dim_fighter.out[k].fighter_url)
       /\ "first_name_details" \notin DOMAIN dim_fighter.out[k]

C30_NoNewline(cell) == \A i \in 1..Len(cell) : cell[i] \notin {"\r", "\n"}

\* a cell as the final pass should leave it: "\r" and "\n" replaced, the
\* rest untouched
C30_Stripped(cell) == ReplaceChar(ReplaceChar(cell, "\r", " "), "\n", " ")

\* C30: the final pass of the dim_fighter builder leaves no "\r" or "\n" in
\* a text cell and changes nothing else; an attribute absent for want of a
\* details row is written empty.
C30_OnlyNewlinesStripped ==
    dim_fighter.phase = "written" =>
        \A k \in 1..Len(dim_fighter.out) :
           LET o == dim_fighter.out[k]
               e == C25_FirstRow(dim_fighter.det, o.fighter_url)
           IN  /\ C30_NoNewline(o.fighter_url) /\ C30_NoNewline(o.first_name)
               /\ C30_NoNewline(o.dob_raw)
               /\ o.dob_raw = (IF e = 0 THEN <<>> ELSE C30_Stripped(dim_fighter.det[e].dob_raw))

\* C27: after any sequence of fight-details runs that began without an
\* output file, a non-empty output file begins with a header row and holds
\* no second header.
C27_OneHeader ==
    (fight.fresh /\ fight_out.exists /\ fight_out.lines # <<>>) =>
        /\ fight_out.lines[1].kind = "header"
        /\ \A k \in 2..Len(fight_out.lines) : fight_out.lines[k].kind # "header"

\* the identity key of a written bout row: bout_url, or event_url and
\* bout_order when there is no bout_url
C24_Key(br) ==
    IF br.bout_url # <<>> THEN <<"bout", br.bout_url, 0>>
    ELSE <<"event", br.event_url, br.bout_order>>

\* the bouts parsed whose key no earlier parsed bout has
C24_FirstOfKey ==
    {i \in 1..Len(details.parsed) :
        \A j \in 1..(i - 1) : C24_Key(details.parsed[j]) # C24_Key(details.parsed[i])}

\* C24: the event-details snapshot has at most one row per identity key, the
\* row kept for a key is that of the earliest seed that produced it, and
\* the rows are in feed order.
C24_FirstSeedWins ==
    (details.kind = "event" /\ details.status = "success") =>
        LET rows == details.outfile.lines
        IN  /\ \A j, k \in 1..Len(rows) :
                  j < k => C24_Key(rows[j]) # C24_Key(rows[k])
            /\ Len(rows) = Cardinality(C24_FirstOfKey)
            /\ \A k \in 1..Len(rows) :
                  rows[k] = details.parsed[NthIndex(C24_FirstOfKey, k)]

C24_Witness ==
    /\ details.kind = "event" /\ details.status = "success"
    /\ Len(details.seeds) = 2
    /\ Len(details.parsed) = 3
    /\ details.parsed[1].seed = 1 /\ details.parsed[2].seed = 2
    /\ details.parsed[2].bout_url = details.parsed[1].bout_url
    /\ details.parsed[2].event_url # details.parsed[1].event_url
    /\ Len(details.outfile.lines) = 2
    /\ details.outfile.lines[1] = details.parsed[1]
    /\ details.outfile.lines[2] = details.parsed[3]

\* C28: the snapshot the event-details stage writes has the seed column the
\* fight-details stage reads, so that stage, once it has exited, has taken
\* every bout written by the event-details stage as a seed.
C28_Step5ReadsStep3 ==
    /\ pipeline.pc # "idle" /\ pipeline.event_details_csv.exists =>
          SeedColumn \in pipeline.event_details_csv.header
    /\ pipeline.pc # "idle" /\ Len(pipeline.exits) = 5 =>
          /\ pipeline.exits[5]
          /\ pipeline.seeds = pipeline.event_details_csv.bout_urls

\* C29: the stages run one at a time in the order of Stages, a stage starts
\* only after every earlier stage exited successfully, none starts after a
\* failure, and the completion message needs five successes.
C29_StagesInOrder ==
    pipeline.pc # "idle" =>
        LET n == Len(pipeline.started)
            m == Len(pipeline.exits)
        IN  /\ n <= Len(Stages)
            /\ pipeline.started = SubSeq(Stages, 1, n)
            /\ m \in {n - 1, n} /\ m >= 0
            /\ (m = n - 1) <=> (pipeline.pc = "child")
            /\ \A j \in 1..(n - 1) : pipeline.exits[j]
            /\ pipeline.message =>
                  (m = Len(Stages) /\ \A j \in 1..m : pipeline.exits[j])

C29_Witness ==
    /\ pipeline.pc = "exited"
    /\ Len(pipeline.started) = 4
    /\ pipeline.exits = <<TRUE, TRUE, TRUE, FALSE>>
    /\ ~pipeline.message

\* C23: a page parser emits a record for every table row whose identity key
\* is non-empty; here the rows of an event page that hold a bout link.
C23_KeyedRowsAreEmitted ==
    event_page.phase = "returned" =>
        \A i \in 1..Len(event_page.trs) :
           event_page.trs[i].bout_anchor =>
              \E k \in 1..Len(event_page.bouts) : event_page.bouts[k].tr = i

C21_Keys ==
    {"dob_raw", "slpm", "str_acc", "sapm", "str_def", "td_avg", "td_acc", "td_def", "sub_avg"}

\* the list items of the page that name the label: cleaned text with a
\* colon whose part before the first colon, cleaned, is the label
C21_Items(label, fold) ==
    {i \in 1..Len(fighter_page.lis) :
        LET txt == clean_text(fighter_page.lis[i])
        IN  /\ Contains(txt, <<":">>)
            /\ LET k == clean_text(SplitBefore(txt, <<":">>))
               IN  IF fold THEN Lower(k) = Lower(label) ELSE k = label}

\* C21: parse_fighter_details returns exactly the 9 keys, each "" unless an
\* item of the page names its label; other labels add no key.
C21_StableSchema ==
    fighter_page.phase = "parsed" =>
        /\ DOMAIN fighter_page.out = C21_Keys
        /\ C21_Items(L_DOB, TRUE) = {} => fighter_page.out["dob_raw"] = <<>>
        /\ \A j \in 1..Len(WantedLabels) :
              C21_Items(WantedLabels[j], FALSE) = {} =>
                 fighter_page.out[WantedKeys[j]] = <<>>

C21_Witness ==
    /\ fighter_page.phase = "parsed"
    /\ fighter_page.lis = <<LI_height, LI_record>>
    /\ DOMAIN fighter_page.out = C21_Keys
    /\ \A k \in C21_Keys : fighter_page.out[k] = <<>>

\* C22: without a table whose header has all the totals marks the 18 totals
\* fields stay "", and without one that has all the breakdown marks the 12
\* breakdown fields stay "", whatever other tables the page holds.
C22_AbsentTableLeavesDefaults ==
    fight_page.phase = "parsed" =>
        /\ (\A p \in 1..Len(fight_page.tables) :
               ~HasMarks(fight_page.tables[p].thead, TotalsMarks)) =>
              \A x \in TotalsFields : fight_page.row[x] = <<>>
        /\ (\A p \in 1..Len(fight_page.tables) :
               ~HasMarks(fight_page.tables[p].thead, BreakdownMarks)) =>
              \A x \in BreakdownFields : fight_page.row[x] = <<>>

\* the value the paragraph shows for label j ("" when it does not show it)
C26_Shown(items, j) ==
    IF \E a \in 1..Len(items) : items[a].label = j
    THEN items[CHOOSE a \in 1..Len(items) : items[a].label = j].value
    ELSE <<>>

\* C26: from a meta text with any of the known labels in any order, the
\* value extracted for a label is the text between it and the next known
\* label (or the end), "" when the label is absent, and no extracted value
\* holds another known label.
C26_ValueUpToNextLabel ==
    (fight_page.phase = "parsed" /\ Len(fight_page.labelled) = 1) =>
        \A j \in 1..Len(Stops) :
           /\ fight_page.row[MetaKeys[j]] = C26_Shown(fight_page.labelled[1], j)
           /\ \A k \in 1..Len(Stops) :
                 k # j => ~Contains(fight_page.row[MetaKeys[j]], Stops[k])

====
